---- MODULE Spec2Model ----
(***************************************************************************)
(* voice-to-note: the batch pipeline (src/src/pipeline.py), the retrying   *)
(* transcription service (src/src/transcription_service.py) and the        *)
(* collision-resolving file writer (src/src/file_writer.py).               *)
(*                                                                         *)
(* Three specifications share the variables:                               *)
(*   Spec        one Pipeline.process_files run over a list of recordings  *)
(*   SpecWriter  one FileWriter, called again and again with one name      *)
(*   SpecRace    two runs calling FileWriter.write on one output directory *)
(***************************************************************************)
EXTENDS Integers, Sequences, FiniteSets, TLC

VARIABLES
    audio_files,    \* process_files' argument: a list of AudioFile
    results,        \* process_files' local list of ProcessingResult
    i,              \* enumerate() position of process_files' loop
    pc,             \* where the pipeline stands inside process_files/process_file
    attempt,        \* transcribe's loop variable
    delay,          \* transcribe's local delay, computed and not yet slept
    remote_calls,   \* client.audio.transcriptions.create calls made for the current item
    slept,          \* time.sleep arguments of the current item, in order
    outcomes,       \* what each attempt of the current item ended with, in order
    rewrite_calls,  \* client.chat.completions.create calls made for the current item
    raised,         \* the exception that reached process_file's except clauses, or None
    item_vault,     \* the output directory when process_file took the current item
    vault,          \* the output directory: file name -> content
    wpc,            \* per run: where FileWriter.write stands
    wname,          \* per run: write's filename argument
    wcontent,       \* per run: write's content argument
    wpath,          \* per run: write's local file_path
    werr,           \* per run: the FileWriteError write raised, or None
    wio,            \* per run: how mkdir or write_text failed or ended, "none" before
    wbefore,        \* per run: the output directory when write was called
    wleft,          \* per run: calls of write this run still makes
    filler_words,   \* TextProcessor.filler_words
    aggressiveness, \* TextProcessor.aggressiveness
    raw_text,       \* process' argument
    text,           \* process' local text
    tpc,            \* where TextProcessor.process stands
    sent,           \* the user content of each chat.completions.create call, in order
    texc,           \* the exception process raised, or NoExc
    cost_files,     \* per list A, B: estimate_cost's argument, as durations in ms
    cost,           \* per list A, B: what estimate_cost returned, or None
    sresults,       \* get_summary's argument
    summary,        \* what get_summary returned, or None
    config,         \* process: what the ConfigManager and the environment hold
    files,          \* process: the files argument, each file by its kind
    combined,       \* process: the --combined flag
    cpc,            \* where the process command stands
    file_k,         \* process: position of the loading loop in files
    loaded,         \* process: audio_files, as positions in files
    costs,          \* process: the estimate shown, or None
    asked,          \* process: the answers click.confirm got, in order
    handed,         \* process: positions in files handed to the pipeline, in order
    item_ok,        \* process: per item handed to the pipeline, whether it succeeded
    exit_code,      \* process: <<n>> after sys.exit(n) or the return (<<0>>), else None
    recordings,     \* process_files_combined's argument: a list of recordings
    rec_k,          \* process_files_combined: position of its loop in recordings
    transcripts,    \* process_files_combined: the (text, metadata) pairs collected
    item_errors,    \* process_files_combined: per recording taken, its error or NoExc
    comb_pc,        \* where process_files_combined stands
    markdown,       \* process_files_combined: what format_combined returned, or None
    format_calls,   \* calls of format_combined made
    write_calls,    \* process_files_combined: calls of file_writer.write made
    comb_vault,     \* the output directory when process_files_combined was called
    comb_result,    \* the ProcessingResult process_files_combined returned, or None
    fn_pattern,     \* generate_filename's pattern argument
    fn_metadata,    \* generate_filename's metadata argument
    fn_names,       \* what the calls of generate_filename returned, in order
    fn_nows,        \* what the clock read at each call, in order
    fn_pc,          \* how often generate_filename has been called
    config_file,    \* what the configuration file holds, {} when there is none
    heap,           \* the dictionaries created so far; DEFAULT_CONFIG is the first
    managers,       \* per ConfigManager A, B: its self.config, 0 before it is made
    sets,           \* the calls of A.set made, in order, each with what it raised
    got             \* the last call of get after the last set, with its result, or None

vars == <<audio_files, results, i, pc, attempt, delay, remote_calls, slept,
          outcomes, rewrite_calls, raised, item_vault, vault,
          wpc, wname, wcontent, wpath, werr, wio, wbefore, wleft,
          filler_words, aggressiveness, raw_text, text, tpc, sent, texc,
          cost_files, cost, sresults, summary,
          config, files, combined, cpc, file_k, loaded, costs, asked, handed,
          item_ok, exit_code,
          recordings, rec_k, transcripts, item_errors, comb_pc, markdown,
          format_calls, write_calls, comb_vault, comb_result,
          fn_pattern, fn_metadata, fn_names, fn_nows, fn_pc,
          config_file, heap, managers, sets, got>>

textVars == <<filler_words, aggressiveness, raw_text, text, tpc, sent, texc>>

costVars == <<cost_files, cost>>

summaryVars == <<sresults, summary>>

cliVars == <<config, files, combined, cpc, file_k, loaded, costs, asked, handed,
             item_ok, exit_code>>

combinedVars == <<recordings, rec_k, transcripts, item_errors, comb_pc, markdown,
                  format_calls, write_calls, comb_vault, comb_result>>

filenameVars == <<fn_pattern, fn_metadata, fn_names, fn_nows, fn_pc>>

configVars == <<config_file, heap, managers, sets, got>>

\* The variables of the units that are also checked on their own.
unitVars == <<textVars, costVars, summaryVars, cliVars, combinedVars, filenameVars,
              configVars>>

pipeVars == <<audio_files, results, i, pc, attempt, delay, remote_calls, slept,
              outcomes, rewrite_calls, raised>>

writerVars == <<wpc, wname, wcontent, wpath, werr, wio, wbefore>>

\* The variables of the batch run and of the writer.
batchVars == <<pipeVars, item_vault, vault, writerVars, wleft>>

\* What the steps of one unit leave alone.
exceptTextVars == <<batchVars, costVars, summaryVars, cliVars, combinedVars,
                    filenameVars, configVars>>
exceptCostVars == <<batchVars, textVars, summaryVars, cliVars, combinedVars,
                    filenameVars, configVars>>
exceptSummaryVars == <<batchVars, textVars, costVars, cliVars, combinedVars,
                    filenameVars, configVars>>
exceptCliVars == <<batchVars, textVars, costVars, summaryVars, combinedVars,
                    filenameVars, configVars>>
\* The combined workflow writes: it leaves the batch run and the other units alone.
exceptCombinedVars == <<pipeVars, item_vault, wleft, textVars, costVars, summaryVars,
                        cliVars, filenameVars, configVars>>
exceptFilenameVars == <<batchVars, textVars, costVars, summaryVars, cliVars,
                        combinedVars, configVars>>
exceptConfigVars == <<batchVars, textVars, costVars, summaryVars, cliVars,
                      combinedVars, filenameVars>>

(***************************************************************************)
(* Bounds of the model.                                                    *)
(***************************************************************************)
MaxFiles == 2           \* longest list handed to process_files
RaceWrites == 1         \* calls of write per run in SpecRace
MaxText == 4            \* longest transcript handed to TextProcessor.process
MaxCostFiles == 2       \* longest list handed to estimate_cost
MaxOutcomes == 3        \* longest list handed to get_summary
MaxArgs == 2            \* most files on the command line of process
MaxRecordings == 3      \* longest list handed to process_files_combined
MaxPattern == 4         \* longest pattern handed to generate_filename
MaxSets == 2            \* most calls of ConfigManager.set

(***************************************************************************)
(* Program constants.                                                      *)
(***************************************************************************)
MAX_RETRIES == 3
RETRY_DELAY == 2
max_size_mb == 25
MAX_PROBES == 1000

\* Python's None; no file name and no message is the empty sequence.
None == << >>

Runs == {1, 2}

RECURSIVE Pow2(_)
Pow2(n) == IF n = 0 THEN 1 ELSE 2 * Pow2(n - 1)

Last(s) == s[Len(s)]

(***************************************************************************)
(* File names.  A name is its stem followed by the counters appended to    *)
(* it: <<"note">> is note.md, <<"note", 1>> is note_1.md and               *)
(* <<"note", 1, 1>> is note_1_1.md.  f"{stem}_{counter}{suffix}" of a name *)
(* appends one counter, so the name note_1.md asked for by a caller and    *)
(* the name note_1.md derived from note.md are the same file.              *)
(***************************************************************************)
Suffixed(filename, counter) == Append(filename, counter)

\* A file content: who wrote it.
OldContent == <<"old", 0, 0>>
RunContent(r, n) == <<"run", r, n>>
ItemContent(k) == <<"item", 1, k>>

(***************************************************************************)
(* FileWriter._get_unique_path.  dir is the set of names for which         *)
(* Path.exists() answers True.  The while loop probes counter = 1, 2, ...  *)
(* in order and returns the first name that does not exist; it raises      *)
(* FileWriteError when counter, after its increment, exceeds 1000, that    *)
(* is when the probes 1..1000 all exist.  The result is the chosen name,   *)
(* or None for the raise.  probe is the loop entered with the given        *)
(* counter; last is the last counter it probes.                            *)
(***************************************************************************)
FirstFree(dir, filename, counter, last) ==
    CHOOSE k \in counter..last :
        /\ Suffixed(filename, k) \notin dir
        /\ \A j \in counter..(k - 1) : Suffixed(filename, j) \in dir

probe(dir, filename, counter, last) ==
    IF \E k \in counter..last : Suffixed(filename, k) \notin dir
    THEN Suffixed(filename, FirstFree(dir, filename, counter, last))
    ELSE None

\* The slip of never looking for a collision.
get_unique_path_unchecked(dir, filename) == filename

\* The slip of returning the last probed name instead of raising.
get_unique_path_overwrites(dir, filename) ==
    IF filename \notin dir THEN filename
    ELSE IF probe(dir, filename, 1, MAX_PROBES) = None
    THEN Suffixed(filename, MAX_PROBES)
    ELSE probe(dir, filename, 1, MAX_PROBES)

\* The slip of starting the counter at 2.
get_unique_path_from_two(dir, filename) ==
    IF filename \notin dir THEN filename ELSE probe(dir, filename, 2, MAX_PROBES)

get_unique_path(dir, filename) ==
    IF filename \notin dir THEN filename ELSE probe(dir, filename, 1, MAX_PROBES)

\* str(e) of the FileWriteError that write's "except Exception" builds.
WriteFailed(cause) == <<"Failed to write file", cause>>

Exists(path) == path \in DOMAIN vault

WriteTextTo(path, content) ==
    [n \in DOMAIN vault \cup {path} |-> IF n = path THEN content ELSE vault[n]]

(***************************************************************************)
(* FileWriter.write, step by step, for run r.  The pipeline is run 1: its  *)
(* step 7 is the call, and it waits for write to return or raise.          *)
(***************************************************************************)
\* The call: write(content, filename).
WriteCall(r, content, filename) ==
    /\ wpc' = [wpc EXCEPT ![r] = "resolve"]
    /\ wname' = [wname EXCEPT ![r] = filename]
    /\ wcontent' = [wcontent EXCEPT ![r] = content]
    /\ wpath' = [wpath EXCEPT ![r] = None]
    /\ werr' = [werr EXCEPT ![r] = None]
    /\ wio' = [wio EXCEPT ![r] = "none"]
    /\ wbefore' = [wbefore EXCEPT ![r] = vault]

\* _ensure_output_directory, then _get_unique_path.
WriteResolve(r) ==
    /\ wpc[r] = "resolve"
    /\ \E mkdir \in {"ok", "OSError"} :
         LET file_path == get_unique_path(DOMAIN vault, wname[r]) IN
         IF mkdir = "OSError"
         THEN /\ wpc' = [wpc EXCEPT ![r] = "raised"]
              /\ werr' = [werr EXCEPT ![r] = WriteFailed("Failed to create output directory")]
              /\ wpath' = wpath
              /\ wio' = [wio EXCEPT ![r] = "mkdir_OSError"]
         ELSE IF file_path = None
         THEN /\ wpc' = [wpc EXCEPT ![r] = "raised"]
              /\ werr' = [werr EXCEPT ![r] = WriteFailed("Could not find unique filename")]
              /\ wpath' = wpath
              /\ wio' = wio
         ELSE /\ wpc' = [wpc EXCEPT ![r] = "write_text"]
              /\ wpath' = [wpath EXCEPT ![r] = file_path]
              /\ werr' = werr
              /\ wio' = wio
    /\ UNCHANGED <<vault, wname, wcontent, wbefore>>
    /\ UNCHANGED <<pipeVars, item_vault, wleft, unitVars>>

\* file_path.write_text(content): it persists the content, raises OSError,
\* or returns with nothing on disk.
WriteText(r) ==
    /\ wpc[r] = "write_text"
    /\ \E io \in {"ok", "OSError", "dropped"} :
         /\ wio' = [wio EXCEPT ![r] = io]
         /\ CASE io = "ok" ->
                   /\ vault' = WriteTextTo(wpath[r], wcontent[r])
                   /\ wpc' = [wpc EXCEPT ![r] = "verify"]
                   /\ werr' = werr
              [] io = "dropped" ->
                   /\ vault' = vault
                   /\ wpc' = [wpc EXCEPT ![r] = "verify"]
                   /\ werr' = werr
              [] io = "OSError" ->
                   /\ vault' = vault
                   /\ wpc' = [wpc EXCEPT ![r] = "raised"]
                   /\ werr' = [werr EXCEPT ![r] = WriteFailed("OSError")]
    /\ UNCHANGED <<wname, wcontent, wpath, wbefore>>
    /\ UNCHANGED <<pipeVars, item_vault, wleft, unitVars>>

\* The slip of returning the path without looking at the disk.
WriteVerify_unchecked(r) ==
    /\ wpc[r] = "verify"
    /\ wpc' = [wpc EXCEPT ![r] = "returned"]
    /\ werr' = werr
    /\ UNCHANGED <<vault, wname, wcontent, wpath, wio, wbefore>>
    /\ UNCHANGED <<pipeVars, item_vault, wleft, unitVars>>

\* "if not file_path.exists(): raise", else return file_path.
WriteVerify(r) ==
    /\ wpc[r] = "verify"
    /\ IF Exists(wpath[r])
       THEN /\ wpc' = [wpc EXCEPT ![r] = "returned"]
            /\ werr' = werr
       ELSE /\ wpc' = [wpc EXCEPT ![r] = "raised"]
            /\ werr' = [werr EXCEPT ![r] = WriteFailed("File was not created")]
    /\ UNCHANGED <<vault, wname, wcontent, wpath, wio, wbefore>>
    /\ UNCHANGED <<pipeVars, item_vault, wleft, unitVars>>

WriterInit ==
    /\ wpc = [r \in Runs |-> "idle"]
    /\ wname = [r \in Runs |-> None]
    /\ wcontent = [r \in Runs |-> OldContent]
    /\ wpath = [r \in Runs |-> None]
    /\ werr = [r \in Runs |-> None]
    /\ wio = [r \in Runs |-> "none"]
    /\ wbefore = [r \in Runs |-> [n \in {} |-> OldContent]]

(***************************************************************************)
(* Exceptions.  An exception is its class, its str() and the step of       *)
(* process_file that raised it.  Parent is the class hierarchy:            *)
(* RateLimitError and APIConnectionError are kinds of openai's APIError,   *)
(* and every class here is a kind of Exception.                            *)
(***************************************************************************)
Parent(cls) ==
    CASE cls = "RateLimitError" -> "APIError"
      [] cls = "APIConnectionError" -> "APIError"
      [] OTHER -> "Exception"

RECURSIVE IsInstance(_, _)
IsInstance(cls, of) ==
    \/ cls = of
    \/ cls # "Exception" /\ IsInstance(Parent(cls), of)

Exc(type, msg, at) == [type |-> type, msg |-> msg, at |-> at]
NoExc == Exc("None", None, "None")

(***************************************************************************)
(* ProcessingResult.  audio_file is the position of the recording in the   *)
(* input list, which is what tells two equal recordings apart.             *)
(***************************************************************************)
ProcessingResult(audio_file, success, output_path, error) ==
    [audio_file |-> audio_file, success |-> success,
     output_path |-> output_path, error |-> error]

\* process_file's two except clauses: which one takes the exception, if any.
DomainErrors == {"TranscriptionError", "TextProcessingError", "FileWriteError"}

\* The slip of catching the domain errors only.
process_file_clause_domain_only(exc) ==
    IF \E d \in DomainErrors : IsInstance(exc.type, d) THEN "domain" ELSE "uncaught"

process_file_clause(exc) ==
    IF \E d \in DomainErrors : IsInstance(exc.type, d) THEN "domain"
    ELSE IF IsInstance(exc.type, "Exception") THEN "unexpected"
    ELSE "uncaught"

\* The slip of a failure that carries no reason.
FailureResult_without_error(audio_file, exc) ==
    ProcessingResult(audio_file, FALSE, None, None)

\* The ProcessingResult the except clause returns.
FailureResult(audio_file, exc) ==
    IF process_file_clause(exc) = "domain"
    THEN ProcessingResult(audio_file, FALSE, None, exc.msg)
    ELSE ProcessingResult(audio_file, FALSE, None, <<"Unexpected error">> \o exc.msg)

(***************************************************************************)
(* process_files' loop body after process_file returned:                   *)
(* results.append(result), and on to the next item.                        *)
(***************************************************************************)
\* The slip of keeping the successes only.
AppendResult_drops_failures(result) ==
    /\ results' = IF result.success THEN Append(results, result) ELSE results
    /\ i' = i + 1
    /\ pc' = "loop"

AppendResult(result) ==
    /\ results' = Append(results, result)
    /\ i' = i + 1
    /\ pc' = "loop"

\* An exception leaves process_file's try block.
Raise(exc) ==
    /\ raised' = exc
    /\ IF process_file_clause(exc) = "uncaught"
       THEN /\ pc' = "crashed"
            /\ UNCHANGED <<results, i>>
       ELSE AppendResult(FailureResult(i, exc))

(***************************************************************************)
(* TranscriptionService.validate_file_size.  size_mb is st_size / 2^20, a  *)
(* division by a power of two, exact in floating point, so size_mb > 25    *)
(* is st_size > 25 * 2^20.                                                 *)
(***************************************************************************)
BytesPerMB == 1024 * 1024

\* The slip of rejecting the limit itself.
too_large_at_limit(st_size) == st_size >= max_size_mb * BytesPerMB

too_large(st_size) == st_size > max_size_mb * BytesPerMB

(***************************************************************************)
(* TranscriptionService.transcribe: the retry policy.                      *)
(***************************************************************************)
\* The slip of doubling once too often.
rate_limit_delay_doubled(n) == RETRY_DELAY * Pow2(n)

rate_limit_delay(n) == RETRY_DELAY * Pow2(n - 1)

connection_delay(n) == RETRY_DELAY * n

\* The slip of "<=" for "<".
may_retry_once_more(n) == n <= MAX_RETRIES

may_retry(n) == n < MAX_RETRIES

\* The slip of retrying every APIError like a connection error.
transcribe_clause_retries_api(cls) ==
    IF IsInstance(cls, "RateLimitError") THEN "RateLimitError"
    ELSE IF IsInstance(cls, "APIError") THEN "APIConnectionError"
    ELSE "Exception"

\* The first except clause of transcribe that matches the class.
transcribe_clause(cls) ==
    IF IsInstance(cls, "RateLimitError") THEN "RateLimitError"
    ELSE IF IsInstance(cls, "APIConnectionError") THEN "APIConnectionError"
    ELSE IF IsInstance(cls, "APIError") THEN "APIError"
    ELSE "Exception"

\* What one call of _transcribe_with_retry can end with: the text, or the
\* class of the exception that leaves it.  open() fails before the remote
\* call; an empty text is a TranscriptionError raised after it.
AttemptOutcomes ==
    {"text", "empty", "RateLimitError", "APIConnectionError", "APIError",
     "Exception", "open_OSError"}

AttemptClass(out) ==
    CASE out = "empty" -> "TranscriptionError"
      [] out = "open_OSError" -> "OSError"
      [] OTHER -> out

CallsRemote(out) == out # "open_OSError"

(***************************************************************************)
(* Pipeline.process_files and Pipeline.process_file, step by step.         *)
(***************************************************************************)
\* "for i, audio_file in enumerate(audio_files, 1)": the next item enters
\* process_file.
\* The slip of entering process_file behind its first step.
ProcessFile_without_validation ==
    /\ pc = "loop"
    /\ i <= Len(audio_files)
    /\ pc' = "transcribe"
    /\ attempt' = 1
    /\ delay' = 0
    /\ remote_calls' = 0
    /\ slept' = << >>
    /\ outcomes' = << >>
    /\ rewrite_calls' = 0
    /\ raised' = NoExc
    /\ item_vault' = vault
    /\ UNCHANGED <<audio_files, results, i, vault, writerVars, wleft, unitVars>>

ProcessFile ==
    /\ pc = "loop"
    /\ i <= Len(audio_files)
    /\ pc' = "validate"
    /\ attempt' = 0
    /\ delay' = 0
    /\ remote_calls' = 0
    /\ slept' = << >>
    /\ outcomes' = << >>
    /\ rewrite_calls' = 0
    /\ raised' = NoExc
    /\ item_vault' = vault
    /\ UNCHANGED <<audio_files, results, i, vault, writerVars, wleft, unitVars>>

\* The loop is over: "return results".
ProcessFilesReturn ==
    /\ pc = "loop"
    /\ i > Len(audio_files)
    /\ pc' = "returned"
    /\ UNCHANGED <<audio_files, results, i, attempt, delay, remote_calls, slept,
                   outcomes, rewrite_calls, raised, item_vault, vault,
                   writerVars, wleft, unitVars>>

\* Step 1: validate_file_size.  stat() answers, or raises OSError for a
\* file that is gone since it was loaded.
ValidateFileSize ==
    /\ pc = "validate"
    /\ \E stat \in {"ok", "OSError"} :
         IF stat = "OSError"
         THEN /\ Raise(Exc("OSError", <<"stat failed">>, "validate"))
              /\ attempt' = attempt
         ELSE IF too_large(audio_files[i].size)
         THEN /\ Raise(Exc("TranscriptionError", <<"exceeds the 25 MB API limit">>,
                           "validate"))
              /\ attempt' = attempt
         ELSE /\ pc' = "transcribe"
              /\ attempt' = 1
              /\ UNCHANGED <<results, i, raised>>
    /\ UNCHANGED <<audio_files, delay, remote_calls, slept, outcomes,
                   rewrite_calls, item_vault, vault, writerVars, wleft, unitVars>>

\* Step 2: one pass of transcribe's for loop, up to the sleep.
TranscribeAttempt ==
    /\ pc = "transcribe"
    /\ \E out \in AttemptOutcomes :
         LET clause == transcribe_clause(AttemptClass(out)) IN
         /\ remote_calls' = IF CallsRemote(out) THEN remote_calls + 1 ELSE remote_calls
         /\ outcomes' = Append(outcomes, out)
         /\ CASE out = "text" ->
                   /\ pc' = "process_text"
                   /\ UNCHANGED <<results, i, raised, delay>>
              [] out # "text" /\ clause = "RateLimitError" ->
                   IF may_retry(attempt)
                   THEN /\ delay' = rate_limit_delay(attempt)
                        /\ pc' = "sleep"
                        /\ UNCHANGED <<results, i, raised>>
                   ELSE /\ Raise(Exc("TranscriptionError",
                                     <<"Rate limit exceeded after 3 attempts">>,
                                     "transcribe"))
                        /\ delay' = delay
              [] out # "text" /\ clause = "APIConnectionError" ->
                   IF may_retry(attempt)
                   THEN /\ delay' = connection_delay(attempt)
                        /\ pc' = "sleep"
                        /\ UNCHANGED <<results, i, raised>>
                   ELSE /\ Raise(Exc("TranscriptionError",
                                     <<"Connection failed after 3 attempts">>,
                                     "transcribe"))
                        /\ delay' = delay
              [] out # "text" /\ clause = "APIError" ->
                   /\ Raise(Exc("TranscriptionError", <<"OpenAI API error">>,
                                "transcribe"))
                   /\ delay' = delay
              [] out # "text" /\ clause = "Exception" ->
                   /\ Raise(Exc("TranscriptionError",
                                <<"Unexpected error during transcription", out>>,
                                "transcribe"))
                   /\ delay' = delay
    /\ UNCHANGED <<audio_files, attempt, slept, rewrite_calls, item_vault,
                   vault, writerVars, wleft, unitVars>>

\* time.sleep(delay), then the for loop's next attempt, or the raise after
\* the loop when there is none.
Sleep ==
    /\ pc = "sleep"
    /\ slept' = Append(slept, delay)
    /\ IF attempt + 1 <= MAX_RETRIES
       THEN /\ attempt' = attempt + 1
            /\ pc' = "transcribe"
            /\ UNCHANGED <<results, i, raised>>
       ELSE /\ Raise(Exc("TranscriptionError",
                         <<"Transcription failed after all retry attempts">>,
                         "transcribe"))
            /\ attempt' = attempt
    /\ UNCHANGED <<audio_files, delay, remote_calls, outcomes, rewrite_calls,
                   item_vault, vault, writerVars, wleft, unitVars>>

\* Step 3: TextProcessor.process, the filler pass and the one rewrite call.
ProcessText ==
    /\ pc = "process_text"
    /\ rewrite_calls' = rewrite_calls + 1
    /\ \E out \in {"text", "empty", "APIError", "Exception"} :
         CASE out = "text" ->
                /\ pc' = "write"
                /\ UNCHANGED <<results, i, raised>>
           [] out = "APIError" ->
                Raise(Exc("TextProcessingError",
                          <<"OpenAI API error during text processing">>,
                          "process_text"))
           [] out \in {"empty", "Exception"} ->
                Raise(Exc("TextProcessingError",
                          <<"Unexpected error during text processing", out>>,
                          "process_text"))
    /\ UNCHANGED <<audio_files, attempt, delay, remote_calls, slept, outcomes,
                   item_vault, vault, writerVars, wleft, unitVars>>

\* Steps 4 to 6 build the metadata, the document and the file name; with the
\* default pattern the name is the recording's modification time.  Step 7
\* calls file_writer.write.
GeneratedFilename(audio_file) == <<audio_file.created>>

WriteToVault ==
    /\ pc = "write"
    /\ pc' = "writing"
    /\ WriteCall(1, ItemContent(i), GeneratedFilename(audio_files[i]))
    /\ UNCHANGED <<audio_files, results, i, attempt, delay, remote_calls, slept,
                   outcomes, rewrite_calls, raised, item_vault, vault, wleft, unitVars>>

\* write returned or raised: process_file ends with its ProcessingResult.
WriteDone ==
    /\ pc = "writing"
    /\ wpc[1] \in {"returned", "raised"}
    /\ IF wpc[1] = "returned"
       THEN /\ AppendResult(ProcessingResult(i, TRUE, wpath[1], None))
            /\ raised' = raised
       ELSE Raise(Exc("FileWriteError", werr[1], "write"))
    /\ wpc' = [wpc EXCEPT ![1] = "idle"]
    /\ UNCHANGED <<audio_files, attempt, delay, remote_calls, slept, outcomes,
                   rewrite_calls, item_vault, vault,
                   wname, wcontent, wpath, werr, wio, wbefore, wleft, unitVars>>

(***************************************************************************)
(* TextProcessor.  A text is a sequence of symbols: a symbol is a          *)
(* whitespace or punctuation character, or a run of letters that no text   *)
(* of the model splits ("um", "sort").  Two letter symbols side by side    *)
(* are one longer word, as "sortof" is, with no word boundary between      *)
(* them.  A filler is a text; "sort of" is <<"sort", " ", "of">>.          *)
(***************************************************************************)
\* \s of the re module.
IsSpace(c) == c \in {" ", "\n", "\t"}

\* [,\s] of the first two patterns.
IsSeparator(c) == c = "," \/ IsSpace(c)

\* \w of the re module: what is neither whitespace nor punctuation here.
IsWord(c) == ~IsSpace(c) /\ c \notin {",", ".", "!", "?"}

\* What re.IGNORECASE compares.
lower(c) ==
    CASE c = "Um" -> "um"
      [] c = "UM" -> "um"
      [] c = "Sort" -> "sort"
      [] c = "Of" -> "of"
      [] OTHER -> c

WordAt(s, p) == p \in 1..Len(s) /\ IsWord(s[p])

\* \b in front of position p (p = Len(s) + 1 is the end of the text).
WordBoundary(s, p) == WordAt(s, p - 1) # WordAt(s, p)

\* re.escape(filler) at position p, ignoring case.
LiteralAt(s, filler, p) ==
    /\ p + Len(filler) - 1 <= Len(s)
    /\ \A k \in 1..Len(filler) : lower(s[p + k - 1]) = lower(filler[k])

\* The length of the longest run of [,\s] that starts at p.
SeparatorRun(s, p) ==
    CHOOSE n \in 0..(Len(s) + 1 - p) :
        /\ \A k \in 0..(n - 1) : IsSeparator(s[p + k])
        /\ (p + n <= Len(s) => ~IsSeparator(s[p + n]))

\* The patterns.  Each answers the position after the match that starts at
\* p, or 0 when none starts there.
\* \bF\b
match_bare(s, filler, p) ==
    IF WordBoundary(s, p) /\ LiteralAt(s, filler, p)
       /\ WordBoundary(s, p + Len(filler))
    THEN p + Len(filler) ELSE 0

\* \bF\b[,\s]+
match_leading(s, filler, p) ==
    IF match_bare(s, filler, p) # 0 /\ SeparatorRun(s, p + Len(filler)) >= 1
    THEN p + Len(filler) + SeparatorRun(s, p + Len(filler)) ELSE 0

\* [,\s]+\bF\b(?=[,.\s]), the run as long as the rest of the pattern allows.
trailing_ok(s, filler, p, n) ==
    /\ match_bare(s, filler, p + n) # 0
    /\ p + n + Len(filler) <= Len(s)
    /\ (IsSeparator(s[p + n + Len(filler)]) \/ s[p + n + Len(filler)] = ".")

match_trailing(s, filler, p) ==
    IF \E n \in 1..SeparatorRun(s, p) : trailing_ok(s, filler, p, n)
    THEN LET n == CHOOSE m \in 1..SeparatorRun(s, p) :
                      /\ trailing_ok(s, filler, p, m)
                      /\ \A l \in (m + 1)..SeparatorRun(s, p) :
                            ~trailing_ok(s, filler, p, l)
         IN p + n + Len(filler)
    ELSE 0

match(pattern, s, filler, p) ==
    CASE pattern = "leading" -> match_leading(s, filler, p)
      [] pattern = "trailing" -> match_trailing(s, filler, p)
      [] pattern = "bare" -> match_bare(s, filler, p)

\* re.sub(pattern, ' ', s, flags=re.IGNORECASE) from position p on: the
\* leftmost match is replaced and the scan goes on behind it.
RECURSIVE sub_filler(_, _, _, _)
sub_filler(pattern, s, filler, p) ==
    IF p > Len(s) THEN << >>
    ELSE IF match(pattern, s, filler, p) # 0
    THEN <<" ">> \o sub_filler(pattern, s, filler, match(pattern, s, filler, p))
    ELSE <<s[p]>> \o sub_filler(pattern, s, filler, p + 1)

\* The patterns list of one filler.
patterns(level) ==
    (IF level \in {"moderate", "high"} THEN <<"leading", "trailing">> ELSE << >>)
        \o (IF level = "high" THEN <<"bare">> ELSE << >>)

\* "for pattern in patterns: result = re.sub(...)", from the k-th pattern on.
RECURSIVE sub_patterns(_, _, _, _)
sub_patterns(ps, k, s, filler) ==
    IF k > Len(ps) THEN s
    ELSE sub_patterns(ps, k + 1, sub_filler(ps[k], s, filler, 1), filler)

\* "for filler in self.filler_words", from the k-th filler on.
RECURSIVE sub_fillers(_, _, _, _)
sub_fillers(fillers, k, s, level) ==
    IF k > Len(fillers) THEN s
    ELSE sub_fillers(fillers, k + 1,
                     sub_patterns(patterns(level), 1, s, fillers[k]), level)

\* The length of the longest run of \s that starts at p.
SpaceRun(s, p) ==
    CHOOSE n \in 0..(Len(s) + 1 - p) :
        /\ \A k \in 0..(n - 1) : IsSpace(s[p + k])
        /\ (p + n <= Len(s) => ~IsSpace(s[p + n]))

\* re.sub(r'\s+', ' ', s)
RECURSIVE collapse_spaces(_, _)
collapse_spaces(s, p) ==
    IF p > Len(s) THEN << >>
    ELSE IF SpaceRun(s, p) >= 1
    THEN <<" ">> \o collapse_spaces(s, p + SpaceRun(s, p))
    ELSE <<s[p]>> \o collapse_spaces(s, p + 1)

\* re.sub(r'\s+([.,!?])', r'\1', s)
RECURSIVE tighten_punctuation(_, _)
tighten_punctuation(s, p) ==
    IF p > Len(s) THEN << >>
    ELSE IF /\ SpaceRun(s, p) >= 1
            /\ p + SpaceRun(s, p) <= Len(s)
            /\ s[p + SpaceRun(s, p)] \in {".", ",", "!", "?"}
    THEN <<s[p + SpaceRun(s, p)]>> \o tighten_punctuation(s, p + SpaceRun(s, p) + 1)
    ELSE <<s[p]>> \o tighten_punctuation(s, p + 1)

\* str.strip()
strip(s) ==
    IF \A p \in 1..Len(s) : IsSpace(s[p]) THEN << >>
    ELSE LET first == CHOOSE p \in 1..Len(s) :
                          ~IsSpace(s[p]) /\ \A q \in 1..(p - 1) : IsSpace(s[q])
             last == CHOOSE p \in 1..Len(s) :
                          ~IsSpace(s[p]) /\ \A q \in (p + 1)..Len(s) : IsSpace(s[q])
         IN SubSeq(s, first, last)

\* The slip of tidying the whitespace at "low" too.
remove_filler_words_pattern_tidies_low(s, fillers, level) ==
    strip(tighten_punctuation(collapse_spaces(
        sub_fillers(fillers, 1, s, level), 1), 1))

\* TextProcessor._remove_filler_words_pattern
remove_filler_words_pattern(s, fillers, level) ==
    IF level = "low" THEN s
    ELSE strip(tighten_punctuation(collapse_spaces(
             sub_fillers(fillers, 1, s, level), 1), 1))

\* TextProcessor.__init__: "x or [...]" for each of the two lists, and the
\* two lists joined.  The Chinese fillers are written in pinyin, one
\* symbol per character.
DEFAULT_FILLERS_ENGLISH ==
    << <<"um">>, <<"uh">>, <<"like">>, <<"you", " ", "know">>,
       <<"sort", " ", "of">>, <<"kind", " ", "of">> >>

DEFAULT_FILLERS_CHINESE ==
    << <<"e">>, <<"en">>, <<"na", "ge">>, <<"jiu", "shi">>, <<"ran", "hou">>,
       <<"zhe", "ge">>, <<"qi", "shi">>, <<"dui">> >>

TextProcessorFillers(filler_words_english, filler_words_chinese) ==
    (IF filler_words_english = << >> THEN DEFAULT_FILLERS_ENGLISH
     ELSE filler_words_english)
        \o (IF filler_words_chinese = << >> THEN DEFAULT_FILLERS_CHINESE
            ELSE filler_words_chinese)

\* What client.chat.completions.create can end with: a reply with its
\* content, or the class of the exception it raises.  A reply whose content
\* is None makes .strip() raise AttributeError.
Replies == {<<"done">>, <<" ", "done", "\n">>, <<" ">>, << >>}
GptErrors == {"APIError", "RateLimitError", "Exception", "AttributeError"}

\* TextProcessor.process, first pass.
RemoveFillerWords ==
    /\ tpc = "start"
    /\ text' = remove_filler_words_pattern(raw_text, filler_words, aggressiveness)
    /\ tpc' = "gpt"
    /\ UNCHANGED <<filler_words, aggressiveness, raw_text, sent, texc>>
    /\ UNCHANGED exceptTextVars

\* The slip of handing the transcript itself to the rewrite call.
ProcessWithGpt_sends_raw_text ==
    /\ tpc = "gpt"
    /\ sent' = Append(sent, raw_text)
    /\ text' = <<"done">>
    /\ tpc' = "returned"
    /\ UNCHANGED <<filler_words, aggressiveness, raw_text, texc>>
    /\ UNCHANGED exceptTextVars

\* TextProcessor.process, second pass: _process_with_gpt(text).
ProcessWithGpt ==
    /\ tpc = "gpt"
    /\ sent' = Append(sent, text)
    /\ \/ \E content \in Replies :
            IF strip(content) = << >>
            THEN /\ texc' = Exc("TextProcessingError",
                                <<"Unexpected error during text processing",
                                  "GPT returned empty response">>, "process_text")
                 /\ tpc' = "raised"
                 /\ text' = text
            ELSE /\ text' = strip(content)
                 /\ tpc' = "returned"
                 /\ texc' = texc
       \/ \E cls \in GptErrors :
            /\ texc' = IF IsInstance(cls, "APIError")
                       THEN Exc("TextProcessingError",
                                <<"OpenAI API error during text processing">>,
                                "process_text")
                       ELSE Exc("TextProcessingError",
                                <<"Unexpected error during text processing", cls>>,
                                "process_text")
            /\ tpc' = "raised"
            /\ text' = text
    /\ UNCHANGED <<filler_words, aggressiveness, raw_text>>
    /\ UNCHANGED exceptTextVars

TextIdle ==
    /\ filler_words = << >>
    /\ aggressiveness = "none"
    /\ raw_text = << >>
    /\ text = << >>
    /\ tpc = "none"
    /\ sent = << >>
    /\ texc = NoExc

(***************************************************************************)
(* Pipeline.estimate_cost.  A duration is a whole number of milliseconds   *)
(* (len(audio) of pydub), a cost a whole number of units of 10^-7 dollar:  *)
(* a second of audio costs 0.006 / 60 dollar, 1000 units, to transcribe,   *)
(* and a character costs (0.01 + 0.03) / 4000 dollar, 100 units, to        *)
(* rewrite.                                                                *)
(***************************************************************************)
UnitsPerMs == 1
UnitsPerChar == 100
UnitsPerCent4 == 1000       \* 0.0001 dollar, the step of round(x, 4)

\* TranscriptionService.estimate_cost(duration_seconds)
transcription_estimate(ms) == ms * UnitsPerMs

\* (duration / 60) * 150 * 6 characters: 15 a second, and int() drops the
\* fraction.
estimated_chars(ms) == (15 * ms) \div 1000

\* TextProcessor.estimate_cost("x" * chars)
text_estimate(chars) == chars * UnitsPerChar

\* sum(...), and the += of a loop over a list.
RECURSIVE Sum(_)
Sum(s) == IF s = << >> THEN 0 ELSE Head(s) + Sum(Tail(s))

TranscriptionItem(ms) == transcription_estimate(ms)
TextItem(ms) == text_estimate(estimated_chars(ms))

\* round(x, 4).  A sum that lies exactly between two steps is rounded by
\* what the floating-point error of the sum makes of it: either way.
round4(x) ==
    IF x % UnitsPerCent4 = (UnitsPerCent4 \div 2)
    THEN {x - (UnitsPerCent4 \div 2), x + (UnitsPerCent4 \div 2)}
    ELSE IF x % UnitsPerCent4 < (UnitsPerCent4 \div 2)
    THEN {x - (x % UnitsPerCent4)}
    ELSE {x - (x % UnitsPerCent4) + UnitsPerCent4}

\* The dictionaries estimate_cost can return for a list of durations.
estimate_cost(durations) ==
    LET transcription_cost ==
            Sum([k \in DOMAIN durations |-> TranscriptionItem(durations[k])])
        text_processing_cost ==
            Sum([k \in DOMAIN durations |-> TextItem(durations[k])])
        total_cost == transcription_cost + text_processing_cost
    IN [transcription : round4(transcription_cost),
        text_processing : round4(text_processing_cost),
        total : round4(total_cost)]

Lists == {"A", "B"}

EstimateCost(l) ==
    /\ cost[l] = None
    /\ \E estimate \in estimate_cost(cost_files[l]) :
          cost' = [cost EXCEPT ![l] = estimate]
    /\ UNCHANGED cost_files
    /\ UNCHANGED exceptCostVars

CostIdle ==
    /\ cost_files = [l \in Lists |-> << >>]
    /\ cost = [l \in Lists |-> None]

(***************************************************************************)
(* Pipeline.get_summary.  An outcome here carries the fields the summary   *)
(* reads: audio_file with its path, a directory and a name, and            *)
(* processing_time, in hundredths of a second.                             *)
(***************************************************************************)
Outcome(path, success, output_path, error, processing_time) ==
    [audio_file |-> [path |-> path], success |-> success,
     output_path |-> output_path, error |-> error,
     processing_time |-> processing_time]

\* Path.name: the last component.
PathName(path) == Last(path)

\* str(path)
str(path) == <<"str">> \o path

\* The parts of get_summary's comprehensions, [f(r) for r in results if
\* keep(r)]: SelectSeq keeps the order of results.
One(r) == 1
ProcessingTime(r) == r.processing_time
Succeeded(r) == r.success
Written(r) == r.success /\ r.output_path # None
\* The slip of listing every outcome among the errors.
Failed_or_not(r) == TRUE

Failed(r) == ~r.success
Every(r) == TRUE
OutputFile(r) == str(r.output_path)
ErrorEntry(r) == [file |-> PathName(r.audio_file.path), error |-> r.error]

\* round(total_time / total, 2) in hundredths: the nearest whole number,
\* and either neighbour for a quotient that lies exactly between two.
rounded_quotient(a, b) ==
    IF 2 * (a % b) = b THEN {a \div b, (a \div b) + 1}
    ELSE IF 2 * (a % b) < b THEN {a \div b}
    ELSE {(a \div b) + 1}

\* The dictionaries get_summary can return.
get_summary(rs) ==
    LET total == Len(rs)
        succeeded == SelectSeq(rs, Succeeded)
        written == SelectSeq(rs, Written)
        failures == SelectSeq(rs, Failed)
        every == SelectSeq(rs, Every)
        successful == Sum([k \in DOMAIN succeeded |-> One(succeeded[k])])
        failed == total - successful
        total_time == Sum([k \in DOMAIN every |-> ProcessingTime(every[k])])
    IN [total_files : {total},
        successful : {successful},
        failed : {failed},
        total_processing_time : {total_time},
        average_processing_time :
            IF total > 0 THEN rounded_quotient(total_time, total) ELSE {0},
        output_files : {[k \in DOMAIN written |-> OutputFile(written[k])]},
        errors : {[k \in DOMAIN failures |-> ErrorEntry(failures[k])]}]

GetSummary ==
    /\ summary = None
    /\ summary' \in get_summary(sresults)
    /\ UNCHANGED sresults
    /\ UNCHANGED exceptSummaryVars

SummaryIdle ==
    /\ sresults = << >>
    /\ summary = None

(***************************************************************************)
(* The process command of cli.py.  config is what validate and             *)
(* get_api_key look at: vault_path is "" (not set), "missing", "file" or   *)
(* "dir"; the two keys say whether the environment variable of the         *)
(* service is set.  A file of the command line is "audio", "absent"        *)
(* (exists() is false), "empty" (st_size = 0), "corrupt" (pydub cannot     *)
(* decode it) or "gone" (it vanishes between exists() and stat()).         *)
(***************************************************************************)
\* validate without the is_dir test of lines 173 to 176.
validate_without_is_dir(cfg) ==
    IF cfg.vault_path = "" THEN <<"Obsidian vault path not configured">>
    ELSE IF cfg.vault_path = "missing" THEN <<"Vault path does not exist">>
    ELSE IF ~cfg.transcription_key THEN <<"API key not found in environment variable">>
    ELSE None

\* ConfigManager.validate: the ConfigurationError it raises, or None.
validate(cfg) ==
    IF cfg.vault_path = "" THEN <<"Obsidian vault path not configured">>
    ELSE IF cfg.vault_path = "missing" THEN <<"Vault path does not exist">>
    ELSE IF cfg.vault_path # "dir" THEN <<"Vault path is not a directory">>
    ELSE IF ~cfg.transcription_key THEN <<"API key not found in environment variable">>
    ELSE None

\* AudioFile(path): the class of the exception it raises, or "None".
AudioFileInit(kind) ==
    CASE kind = "audio" -> "None"
      [] kind = "absent" -> "AudioFileError"
      [] kind = "empty" -> "AudioFileError"
      [] kind = "corrupt" -> "AudioFileError"
      [] kind = "gone" -> "OSError"

\* The parameters of TextProcessor.__init__ and the keywords
\* Pipeline.__init__ calls it with.
TextProcessorParameters ==
    {"api_key", "model", "filler_words_english", "filler_words_chinese",
     "aggressiveness"}
TextProcessorKeywords == {"api_key", "model", "filler_words", "aggressiveness"}

\* Pipeline(config): the class of the exception it raises, or "None".
PipelineInit(cfg) ==
    IF ~cfg.transcription_key THEN "ConfigurationError"
    ELSE IF ~cfg.processing_key THEN "ConfigurationError"
    ELSE IF ~(TextProcessorKeywords \subseteq TextProcessorParameters) THEN "TypeError"
    ELSE IF cfg.vault_path = "" THEN "ConfigurationError"
    ELSE "None"

\* sys.exit(n); SystemExit is no Exception and passes the outer handler.
SysExit(n) ==
    /\ exit_code' = <<n>>
    /\ cpc' = "exited"

\* Lines 35 to 46: ConfigManager(), setup_logging(), validate().
\* setup_logging creates the log directory and can fail there; that goes
\* to the outer "except Exception".
ProcessStart ==
    /\ cpc = "start"
    /\ \E logging \in {"ok", "OSError"} :
         IF logging = "OSError" THEN SysExit(1)
         ELSE IF validate(config) # None THEN SysExit(1)
         ELSE /\ cpc' = "load"
              /\ exit_code' = exit_code
    /\ UNCHANGED <<config, files, combined, file_k, loaded, costs, asked, handed,
                   item_ok>>
    /\ UNCHANGED exceptCliVars

\* Lines 63 to 69: one pass of the loading loop.  An AudioFileError is
\* printed and the file is left out; any other exception ends the command.
ProcessAddFile ==
    /\ cpc = "load"
    /\ file_k <= Len(files)
    /\ LET raises == AudioFileInit(files[file_k]) IN
       IF raises = "None"
       THEN /\ loaded' = Append(loaded, file_k)
            /\ file_k' = file_k + 1
            /\ UNCHANGED <<cpc, exit_code>>
       ELSE IF IsInstance(raises, "AudioFileError")
       THEN /\ file_k' = file_k + 1
            /\ UNCHANGED <<loaded, cpc, exit_code>>
       ELSE /\ SysExit(1)
            /\ UNCHANGED <<loaded, file_k>>
    /\ UNCHANGED <<config, files, combined, costs, asked, handed, item_ok>>
    /\ UNCHANGED exceptCliVars

\* Lines 71 to 125, the rest of the command: the exit for an empty list,
\* then Pipeline(config_manager), the estimate, the confirmation, the run
\* of the pipeline over the loaded files, and the exit code.  What the
\* pipeline does with an item is its success or failure here.
ProcessRun ==
    /\ cpc = "load"
    /\ file_k > Len(files)
    /\ IF loaded = << >>
       THEN /\ SysExit(1)
            /\ UNCHANGED <<costs, asked, handed, item_ok>>
       ELSE IF PipelineInit(config) # "None"
       THEN /\ SysExit(1)
            /\ UNCHANGED <<costs, asked, handed, item_ok>>
       ELSE /\ costs' = <<"costs">>
            /\ \E answer \in BOOLEAN :
                 /\ asked' = Append(asked, answer)
                 /\ IF ~answer
                    THEN /\ SysExit(0)
                         /\ UNCHANGED <<handed, item_ok>>
                    ELSE /\ handed' = loaded
                         /\ \E oks \in [1..Len(loaded) -> BOOLEAN] :
                              /\ item_ok' = oks
                              /\ IF combined
                                 THEN \E result_success \in BOOLEAN :
                                        /\ (\A k \in 1..Len(oks) : ~oks[k])
                                              => ~result_success
                                        /\ SysExit(IF result_success THEN 0 ELSE 1)
                                 ELSE SysExit(IF \E k \in 1..Len(oks) : ~oks[k]
                                              THEN 1 ELSE 0)
    /\ UNCHANGED <<config, files, combined, file_k, loaded>>
    /\ UNCHANGED exceptCliVars

CliIdle ==
    /\ config = [vault_path |-> "", transcription_key |-> FALSE,
                 processing_key |-> FALSE]
    /\ files = << >>
    /\ combined = FALSE
    /\ cpc = "none"
    /\ file_k = 1
    /\ loaded = << >>
    /\ costs = None
    /\ asked = << >>
    /\ handed = << >>
    /\ item_ok = << >>
    /\ exit_code = None

(***************************************************************************)
(* Pipeline.process_files_combined, the combined workflow: each recording  *)
(* is validated, transcribed and cleaned on its own and the (text,         *)
(* metadata) pairs of those that came through are collected; when none     *)
(* came through the outcome is a single failure, otherwise the pairs are   *)
(* formatted once by MarkdownFormatter.format_combined and written once.   *)
(* A recording is its file name, its size, its modification time and what  *)
(* is said in it; durations are left out of the metadata.                  *)
(***************************************************************************)
\* _build_metadata(audio_file).
build_metadata(audio_file) ==
    [created |-> audio_file.created, source |-> audio_file.name]

\* The aggregate metadata of the pairs collected: every source, in order,
\* the number of recordings, and the first recording's time.
combined_metadata(pairs) ==
    [created |-> pairs[1].metadata.created,
     sources |-> [k \in 1..Len(pairs) |-> pairs[k].metadata.source],
     recordings |-> Len(pairs)]

\* _generate_combined_frontmatter: the lines between the two "---".
generate_combined_frontmatter(metadata) ==
    [created |-> metadata.created,
     sources |-> metadata.sources,
     recordings |-> metadata.recordings]

\* _format_recording_section: the header
\* f"## Recording {number}: {source}", the metadata line, the stripped text.
format_recording_section(number, transcript_text, metadata) ==
    LET source == IF "source" \in DOMAIN metadata
                  THEN metadata.source
                  ELSE "Recording" IN
    [header |-> [number |-> number, source |-> source],
     meta_line |-> <<metadata.created>>,
     text |-> strip(transcript_text)]

\* The slip of a return inside the loop: the first section only.
format_combined_first_section_only(pairs, metadata) ==
    [frontmatter |-> generate_combined_frontmatter(metadata),
     sections |-> <<format_recording_section(1, pairs[1].text, pairs[1].metadata)>>]

\* format_combined: the frontmatter, then one section per transcript,
\* numbered from 1 in the order of the list.
format_combined(pairs, metadata) ==
    [frontmatter |-> generate_combined_frontmatter(metadata),
     sections |-> [k \in 1..Len(pairs) |->
                      format_recording_section(k, pairs[k].text,
                                               pairs[k].metadata)]]

\* The file name of the combined note: the time of the first pair.
CombinedFilename(metadata) == <<metadata.created>>

\* What one recording can end with: its cleaned text, or the error of the
\* step that failed.
ItemOutcomes == {"text", "OSError", "TranscriptionError", "TextProcessingError"}

ItemError(audio_file, out) ==
    IF out = "OSError"
    THEN Exc("OSError", <<"stat failed">>, "validate")
    ELSE IF too_large(audio_file.size)
    THEN Exc("TranscriptionError", <<"exceeds the 25 MB API limit">>, "validate")
    ELSE IF out = "TranscriptionError"
    THEN Exc("TranscriptionError", <<"OpenAI API error">>, "transcribe")
    ELSE IF out = "TextProcessingError"
    THEN Exc("TextProcessingError", <<"OpenAI API error during text processing">>,
             "process_text")
    ELSE NoExc

\* One pass of the loop: validate, transcribe and clean one recording; its
\* pair is collected, or its failure is logged and the loop goes on.
CombinedItem ==
    /\ comb_pc = "loop"
    /\ rec_k <= Len(recordings)
    /\ \E out \in ItemOutcomes :
         LET audio_file == recordings[rec_k]
             exc == ItemError(audio_file, out) IN
         /\ item_errors' = Append(item_errors, exc)
         /\ transcripts' = IF exc = NoExc
                           THEN Append(transcripts,
                                       [text |-> audio_file.says,
                                        metadata |-> build_metadata(audio_file)])
                           ELSE transcripts
    /\ rec_k' = rec_k + 1
    /\ UNCHANGED <<recordings, comb_pc, markdown, format_calls, write_calls,
                   comb_vault, comb_result>>
    /\ UNCHANGED <<vault, writerVars>>
    /\ UNCHANGED exceptCombinedVars

\* The slip of formatting and writing inside the loop over the pairs: once
\* for each pair.
CombinedFormat_once_per_pair ==
    /\ comb_pc = "loop"
    /\ rec_k > Len(recordings)
    /\ IF transcripts = << >>
       THEN /\ comb_result' = ProcessingResult(1, FALSE, None,
                                               <<"All recordings failed">>)
            /\ comb_pc' = "returned"
            /\ UNCHANGED <<markdown, format_calls, write_calls, writerVars>>
       ELSE LET metadata == combined_metadata(transcripts) IN
            /\ markdown' = format_combined(transcripts, metadata)
            /\ format_calls' = format_calls + Len(transcripts)
            /\ write_calls' = write_calls + Len(transcripts)
            /\ WriteCall(1, markdown', CombinedFilename(metadata))
            /\ comb_pc' = "writing"
            /\ comb_result' = comb_result
    /\ UNCHANGED <<recordings, rec_k, transcripts, item_errors, vault, comb_vault>>
    /\ UNCHANGED exceptCombinedVars

\* After the loop: the single failure when no pair was collected, else
\* format_combined and the call of file_writer.write.
CombinedFormat ==
    /\ comb_pc = "loop"
    /\ rec_k > Len(recordings)
    /\ IF transcripts = << >>
       THEN /\ comb_result' = ProcessingResult(1, FALSE, None,
                                               <<"All recordings failed">>)
            /\ comb_pc' = "returned"
            /\ UNCHANGED <<markdown, format_calls, write_calls, writerVars>>
       ELSE LET metadata == combined_metadata(transcripts) IN
            /\ markdown' = format_combined(transcripts, metadata)
            /\ format_calls' = format_calls + 1
            /\ write_calls' = write_calls + 1
            /\ WriteCall(1, markdown', CombinedFilename(metadata))
            /\ comb_pc' = "writing"
            /\ comb_result' = comb_result
    /\ UNCHANGED <<recordings, rec_k, transcripts, item_errors, vault, comb_vault>>
    /\ UNCHANGED exceptCombinedVars

\* write returned or raised: the outcome of the whole batch.
CombinedDone ==
    /\ comb_pc = "writing"
    /\ wpc[1] \in {"returned", "raised"}
    /\ comb_result' = IF wpc[1] = "returned"
                      THEN ProcessingResult(1, TRUE, wpath[1], None)
                      ELSE FailureResult(1, Exc("FileWriteError", werr[1], "write"))
    /\ comb_pc' = "returned"
    /\ wpc' = [wpc EXCEPT ![1] = "idle"]
    /\ UNCHANGED <<recordings, rec_k, transcripts, item_errors, markdown,
                   format_calls, write_calls, comb_vault, vault>>
    /\ UNCHANGED <<wname, wcontent, wpath, werr, wio, wbefore>>
    /\ UNCHANGED exceptCombinedVars

CombinedIdle ==
    /\ recordings = << >>
    /\ rec_k = 1
    /\ transcripts = << >>
    /\ item_errors = << >>
    /\ comb_pc = "none"
    /\ markdown = None
    /\ format_calls = 0
    /\ write_calls = 0
    /\ comb_vault = [n \in {} |-> OldContent]
    /\ comb_result = None

(***************************************************************************)
(* MarkdownFormatter.generate_filename.  A name is a sequence of           *)
(* characters; a run of characters that no step of the function looks      *)
(* into or takes apart (the digits of a date, "md", "note") is one         *)
(* element, and so is a placeholder such as "{date}".  A timestamp is      *)
(* what strftime makes of it.                                              *)
(***************************************************************************)
\* dt.strftime(...) for each key of replacements, for the timestamps of the
\* model.
Strftime(dt) ==
    IF dt = "T1"
    THEN [date |-> "2024-01-02", time |-> "030405",
          datetime |-> "2024-01-02-030405", year |-> "2024", month |-> "01",
          day |-> "02", hour |-> "03", minute |-> "04", second |-> "05"]
    ELSE [date |-> "2025-06-07", time |-> "080910",
          datetime |-> "2025-06-07-080910", year |-> "2025", month |-> "06",
          day |-> "07", hour |-> "08", minute |-> "09", second |-> "10"]

\* Path(source).stem: the name without its last suffix.
PathStem(name) ==
    LET dots == {k \in 2..Len(name) : name[k] = "."} IN
    IF dots = {} THEN name
    ELSE SubSeq(name, 1, (CHOOSE k \in dots : \A j \in dots : j <= k) - 1)

\* The replacements dictionary, in insertion order: the key's placeholder
\* and its value.
Replacements(dt, metadata) ==
    LET f == Strftime(dt) IN
    << <<"{date}", <<f.date>> >>, <<"{time}", <<f.time>> >>,
       <<"{datetime}", <<f.datetime>> >>, <<"{year}", <<f.year>> >>,
       <<"{month}", <<f.month>> >>, <<"{day}", <<f.day>> >>,
       <<"{hour}", <<f.hour>> >>, <<"{minute}", <<f.minute>> >>,
       <<"{second}", <<f.second>> >> >>
    \o (IF "source" \in DOMAIN metadata
        THEN << <<"{original_name}", PathStem(metadata.source)>>,
                <<"{original_filename}", metadata.source>> >>
        ELSE << >>)

\* filename.replace(placeholder, value)
RECURSIVE replace(_, _, _)
replace(s, placeholder, value) ==
    IF s = << >> THEN << >>
    ELSE (IF Head(s) = placeholder THEN value ELSE <<Head(s)>>)
             \o replace(Tail(s), placeholder, value)

\* "for key, value in replacements.items()", from the k-th item on.
RECURSIVE apply_replacements(_, _, _)
apply_replacements(s, replacements, k) ==
    IF k > Len(replacements) THEN s
    ELSE apply_replacements(replace(s, replacements[k][1], replacements[k][2]),
                            replacements, k + 1)

\* filename.endswith(extension)
endswith(s, extension) ==
    /\ Len(s) >= Len(extension)
    /\ SubSeq(s, Len(s) - Len(extension) + 1, Len(s)) = extension

invalid_chars == {"<", ">", ":", "\"", "/", "\\", "|", "?", "*"}

\* filename.strip('. ')
RECURSIVE strip_chars(_, _)
strip_chars(s, chars) ==
    IF s = << >> THEN s
    ELSE IF Head(s) \in chars THEN strip_chars(Tail(s), chars)
    ELSE IF s[Len(s)] \in chars THEN strip_chars(SubSeq(s, 1, Len(s) - 1), chars)
    ELSE s

DEFAULT_FILENAME == <<"voice-note", ".", "md">>

\* _sanitize_filename
sanitize_filename(filename) ==
    LET replaced == [k \in DOMAIN filename |->
                        IF filename[k] \in invalid_chars THEN "_" ELSE filename[k]]
        stripped == strip_chars(replaced, {".", " "}) IN
    IF stripped = << >> THEN DEFAULT_FILENAME ELSE stripped

\* The slip of appending the extension whatever the name ends with.
with_extension_always(filename, extension) == filename \o extension

\* "if not filename.endswith(extension): filename += extension"
with_extension(filename, extension) ==
    IF endswith(filename, extension) THEN filename ELSE filename \o extension

\* generate_filename(pattern, metadata, extension), called when the clock
\* reads now.
generate_filename(pattern, metadata, extension, now) ==
    LET dt == IF "created" \in DOMAIN metadata THEN metadata.created ELSE now
        filename == apply_replacements(pattern, Replacements(dt, metadata), 1)
    IN sanitize_filename(with_extension(filename, extension))

MD == <<".", "md">>
Clock == {"T1", "T2"}

\* One call of generate_filename(fn_pattern, fn_metadata), with the default
\* extension: the first, then the second.
GenerateFilename ==
    /\ fn_pc \in {"ready", "once"}
    /\ fn_pc' = IF fn_pc = "ready" THEN "once" ELSE "twice"
    /\ \E now \in Clock :
         /\ fn_names' = Append(fn_names,
                               generate_filename(fn_pattern, fn_metadata, MD, now))
         /\ fn_nows' = Append(fn_nows, now)
    /\ UNCHANGED <<fn_pattern, fn_metadata>>
    /\ UNCHANGED exceptFilenameVars

FilenameIdle ==
    /\ fn_pattern = << >>
    /\ fn_metadata = << >>
    /\ fn_names = << >>
    /\ fn_nows = << >>
    /\ fn_pc = "none"

(***************************************************************************)
(* ConfigManager.  Dictionaries are objects: heap is the sequence of the   *)
(* dictionaries created so far, and the value under a key is a scalar or   *)
(* a reference to one of them, so that two dictionaries can hold the same  *)
(* dictionary.  DEFAULT_CONFIG is the first object.  Of its keys the model *)
(* keeps obsidian.vault_path, obsidian.output_folder and                   *)
(* llm.transcription.model.  A tree is a dictionary written out: what a    *)
(* YAML file holds, and what a dictionary is worth when followed through.  *)
(***************************************************************************)
Scalar(s) == [kind |-> "scalar", s |-> s, id |-> 0]
PyNone == [kind |-> "None", s |-> "", id |-> 0]
Ref(id) == [kind |-> "dict", s |-> "", id |-> id]

Leaf(v) == [kind |-> v.kind, s |-> v.s, items |-> << >>]
Tree(items) == [kind |-> "dict", s |-> "", items |-> items]

\* The class attribute, as a tree.
DEFAULT_CONFIG ==
    Tree([k \in {<<"obsidian">>, <<"llm">>} |->
            IF k = <<"obsidian">>
            THEN Tree([j \in {<<"vault_path">>, <<"output_folder">>} |->
                         IF j = <<"vault_path">> THEN Leaf(PyNone)
                         ELSE Leaf(Scalar("Voice Notes"))])
            ELSE Tree([j \in {<<"transcription">>} |->
                         Tree([m \in {<<"model">>} |-> Leaf(Scalar("whisper-1"))])])])

EmptyDict == [k \in {} |-> PyNone]

\* The dictionaries a literal or yaml.safe_load creates for a tree: every
\* dictionary of the tree is a new object.  The result is the heap and the
\* value that refers to the tree.
RECURSIVE load(_, _)
RECURSIVE load_items(_, _, _, _)
load_items(h, id, tree, keys) ==
    IF keys = {} THEN h
    ELSE LET key == CHOOSE k \in keys : TRUE
             sub == load(h, tree.items[key])
             h2 == [sub.heap EXCEPT ![id] =
                       [k \in DOMAIN sub.heap[id] \cup {key} |->
                           IF k = key THEN sub.value ELSE sub.heap[id][k]]]
         IN load_items(h2, id, tree, keys \ {key})

load(h, tree) ==
    IF tree.kind # "dict"
    THEN [heap |-> h, value |-> [kind |-> tree.kind, s |-> tree.s, id |-> 0]]
    ELSE LET id == Len(h) + 1 IN
         [heap |-> load_items(Append(h, EmptyDict), id, tree, DOMAIN tree.items),
          value |-> Ref(id)]

\* dict[key] = value
SetItem(h, id, key, value) ==
    [h EXCEPT ![id] = [k \in DOMAIN h[id] \cup {key} |->
                          IF k = key THEN value ELSE h[id][k]]]

\* defaults.copy(): a new dictionary with the same values, so the
\* dictionaries below are shared with defaults.
copy(h, from) == [heap |-> Append(h, h[from]), id |-> Len(h) + 1]

\* _merge_with_defaults(cfg, defaults): the heap and the result.
RECURSIVE merge_with_defaults(_, _, _)
RECURSIVE merge_items(_, _, _, _)
merge_items(h, result, cfg, keys) ==
    IF keys = {} THEN h
    ELSE LET key == CHOOSE k \in keys : TRUE
             value == h[cfg][key] IN
         IF key \in DOMAIN h[result] /\ h[result][key].kind = "dict"
               /\ value.kind = "dict"
         THEN LET sub == merge_with_defaults(h, value.id, h[result][key].id) IN
              merge_items(SetItem(sub.heap, result, key, Ref(sub.id)), result,
                          cfg, keys \ {key})
         ELSE merge_items(SetItem(h, result, key, value), result, cfg,
                          keys \ {key})

merge_with_defaults(h, cfg, defaults) ==
    LET result == copy(h, defaults) IN
    [heap |-> merge_items(result.heap, result.id, cfg, DOMAIN h[cfg]),
     id |-> result.id]

\* ConfigManager(config_path): _load_config.  A file that does not exist or
\* does not load leaves {}.
ConfigManagerInit(h, file) ==
    LET loaded_ == load(h, file) IN
    merge_with_defaults(loaded_.heap, loaded_.value.id, 1)

\* key_path.split('.'): a key path is a sequence of keys and dots.
RECURSIVE split(_)
split(key_path) ==
    IF \A k \in DOMAIN key_path : key_path[k] # "."
    THEN <<key_path>>
    ELSE LET dot == CHOOSE k \in DOMAIN key_path :
                       key_path[k] = "." /\ \A j \in 1..(k - 1) : key_path[j] # "."
         IN <<SubSeq(key_path, 1, dot - 1)>>
                \o split(SubSeq(key_path, dot + 1, Len(key_path)))

\* get(key_path, default): the loop over keys, from the k-th on.
RECURSIVE get_from(_, _, _, _, _)
get_from(h, value, keys, k, default) ==
    IF k > Len(keys) THEN value
    ELSE IF value.kind = "dict" /\ keys[k] \in DOMAIN h[value.id]
    THEN get_from(h, h[value.id][keys[k]], keys, k + 1, default)
    ELSE default

get(h, cfg, key_path, default) ==
    get_from(h, Ref(cfg), split(key_path), 1, default)

\* set(key_path, value): the loop over keys[:-1], from the k-th key on, and
\* the assignment.  "in" and item assignment raise TypeError on None, and
\* one of them does on a string.  The result is the heap and the exception.
RECURSIVE set_from(_, _, _, _, _)
set_from(h, cfg, keys, k, value) ==
    IF cfg.kind # "dict"
    THEN [heap |-> h, exc |-> "TypeError"]
    ELSE IF k = Len(keys)
    THEN [heap |-> SetItem(h, cfg.id, keys[k], value), exc |-> "none"]
    ELSE IF keys[k] \notin DOMAIN h[cfg.id]
    THEN LET id == Len(h) + 1 IN
         set_from(SetItem(Append(h, EmptyDict), cfg.id, keys[k], Ref(id)),
                  Ref(id), keys, k + 1, value)
    ELSE set_from(h, h[cfg.id][keys[k]], keys, k + 1, value)

set(h, cfg, key_path, value) ==
    set_from(h, Ref(cfg), split(key_path), 1, value)

\* What a value is worth: the tree below it.
RECURSIVE Deep(_, _)
Deep(h, value) ==
    IF value.kind # "dict" THEN Leaf(value)
    ELSE Tree([k \in DOMAIN h[value.id] |-> Deep(h, h[value.id][k])])

\* The heap when the module is imported: DEFAULT_CONFIG and the
\* dictionaries below it.
ImportedHeap == load(<< >>, DEFAULT_CONFIG).heap

Managers == {"A", "B"}

\* A = ConfigManager(config_path), B = ConfigManager(config_path).
Construct(m) ==
    /\ managers[m] = 0
    /\ m = "B" => managers["A"] # 0
    /\ LET made == ConfigManagerInit(heap, config_file) IN
       /\ heap' = made.heap
       /\ managers' = [managers EXCEPT ![m] = made.id]
    /\ UNCHANGED <<config_file, sets, got>>
    /\ UNCHANGED exceptConfigVars

\* A.set(key_path, value)
Set(key_path, value) ==
    /\ managers["A"] # 0
    /\ Len(sets) < MaxSets
    /\ LET done == set(heap, managers["A"], key_path, value) IN
       /\ heap' = done.heap
       /\ sets' = Append(sets, [key_path |-> key_path, value |-> value,
                                exc |-> done.exc])
    /\ got' = None
    /\ UNCHANGED <<config_file, managers>>
    /\ UNCHANGED exceptConfigVars

\* m.get(key_path, default)
Get(m, key_path, default) ==
    /\ managers[m] # 0
    /\ got' = [manager |-> m, key_path |-> key_path, default |-> default,
               value |-> get(heap, managers[m], key_path, default)]
    /\ UNCHANGED <<config_file, managers, heap, sets>>
    /\ UNCHANGED exceptConfigVars

ConfigIdle ==
    /\ config_file = Tree(EmptyDict)
    /\ heap = << >>
    /\ managers = [m \in Managers |-> 0]
    /\ sets = << >>
    /\ got = None

UnitsIdle ==
    /\ TextIdle /\ CostIdle /\ SummaryIdle /\ CliIdle /\ CombinedIdle
    /\ FilenameIdle /\ ConfigIdle

(***************************************************************************)
(* The recordings and the directories the runs start from.                 *)
(***************************************************************************)
Sizes == {max_size_mb * BytesPerMB, max_size_mb * BytesPerMB + 1}
Stamps == {"a", "b"}
AudioFile == [size : Sizes, created : Stamps]

EmptyDir == [n \in {} |-> OldContent]
DirOf(names) == [n \in names |-> OldContent]

PipelineIdle ==
    /\ results = << >>
    /\ i = 1
    /\ attempt = 0
    /\ delay = 0
    /\ remote_calls = 0
    /\ slept = << >>
    /\ outcomes = << >>
    /\ rewrite_calls = 0
    /\ raised = NoExc

Init ==
    /\ audio_files \in UNION {[1..n -> AudioFile] : n \in 0..MaxFiles}
    /\ pc = "loop"
    /\ vault \in {EmptyDir, DirOf({<<"a">>})}
    /\ PipelineIdle
    /\ item_vault = vault
    /\ WriterInit
    /\ wleft = [r \in Runs |-> 0]
    /\ UnitsIdle

Next ==
    \/ ProcessFile
    \/ ProcessFilesReturn
    \/ ValidateFileSize
    \/ TranscribeAttempt
    \/ Sleep
    \/ ProcessText
    \/ WriteToVault
    \/ WriteResolve(1)
    \/ WriteText(1)
    \/ WriteVerify(1)
    \/ WriteDone

Spec == Init /\ [][Next]_vars

(***************************************************************************)
(* SpecWriter: one FileWriter asked for note.md again and again.  The      *)
(* directory it starts from holds what earlier calls left there, note.md   *)
(* and note_1.md up to note_<n-1>.md, or files of the names note_1.md and  *)
(* note_2.md that something else put there.                                *)
(***************************************************************************)
Note == <<"note">>

Filled(n) == {Note : k \in 1..n} \cup {Suffixed(Note, k) : k \in 1..(n - 1)}

WriterDirs ==
    {[f \in Filled(n) |-> RunContent(1, 0)] : n \in 0..(MAX_PROBES + 1)}
        \cup {DirOf(S) : S \in SUBSET {Suffixed(Note, 1), Suffixed(Note, 2)}}
        \cup {DirOf({Note, Suffixed(Note, 2)})}

NoPipeline ==
    /\ audio_files = << >>
    /\ pc = "none"
    /\ PipelineIdle
    /\ item_vault = EmptyDir

InitWriter ==
    /\ vault \in WriterDirs
    /\ NoPipeline
    /\ WriterInit
    /\ wleft = [r \in Runs |-> 0]
    /\ UnitsIdle

\* The next call of write(content, "note.md").
WriteAgain ==
    /\ wpc[1] \in {"idle", "returned", "raised"}
    /\ WriteCall(1, RunContent(1, 0), Note)
    /\ UNCHANGED <<pipeVars, item_vault, vault, wleft, unitVars>>

NextWriter ==
    \/ WriteAgain
    \/ WriteResolve(1)
    \/ WriteText(1)
    \/ WriteVerify(1)

SpecWriter == InitWriter /\ [][NextWriter]_vars

(***************************************************************************)
(* SpecRace: two runs of the program, each with its own FileWriter, on one *)
(* output directory.  Nothing orders the steps of one run against the      *)
(* steps of the other.                                                     *)
(***************************************************************************)
RaceNames == {Note, Suffixed(Note, 1)}

InitRace ==
    /\ vault \in {EmptyDir, DirOf({Note})}
    /\ NoPipeline
    /\ WriterInit
    /\ wleft = [r \in Runs |-> RaceWrites]
    /\ UnitsIdle

\* Run r calls write(content, filename).
RunWrites(r) ==
    /\ wpc[r] \in {"idle", "returned", "raised"}
    /\ wleft[r] > 0
    /\ \E filename \in RaceNames : WriteCall(r, RunContent(r, wleft[r]), filename)
    /\ wleft' = [wleft EXCEPT ![r] = wleft[r] - 1]
    /\ UNCHANGED <<pipeVars, item_vault, vault, unitVars>>

NextRace ==
    \/ \E r \in Runs : RunWrites(r)
    \/ \E r \in Runs : WriteResolve(r)
    \/ \E r \in Runs : WriteText(r)
    \/ \E r \in Runs : WriteVerify(r)

SpecRace == InitRace /\ [][NextRace]_vars

(***************************************************************************)
(* SpecText: one call of TextProcessor.process, for every transcript of up *)
(* to MaxText symbols, every aggressiveness and some filler lists; an      *)
(* empty list stands for the argument left out.                            *)
(***************************************************************************)
BatchIdle ==
    /\ vault = EmptyDir
    /\ NoPipeline
    /\ WriterInit
    /\ wleft = [r \in Runs |-> 0]

TextSymbols == {"um", "Um", "sort", "of", " ", ","}
Texts == UNION {[1..n -> TextSymbols] : n \in 0..MaxText}
Levels == {"low", "moderate", "high"}
\* The two filler lists handed to TextProcessor(...).
FillerArguments ==
    { << << >>, << >> >>,
      << << <<"sort", " ", "of">>, <<"um">> >>, << >> >>,
      << << <<"um">> >>, << <<"en">> >> >> }

InitText ==
    /\ BatchIdle
    /\ CostIdle
    /\ SummaryIdle
    /\ CliIdle
    /\ CombinedIdle
    /\ FilenameIdle
    /\ ConfigIdle
    /\ filler_words \in {TextProcessorFillers(a[1], a[2]) : a \in FillerArguments}
    /\ aggressiveness \in Levels
    /\ raw_text \in Texts
    /\ text = << >>
    /\ tpc = "start"
    /\ sent = << >>
    /\ texc = NoExc

NextText ==
    \/ RemoveFillerWords
    \/ ProcessWithGpt

SpecText == InitText /\ [][NextText]_vars

(***************************************************************************)
(* SpecCost: Pipeline.estimate_cost applied to two lists of recordings.    *)
(* The durations are such that the floating-point product                  *)
(* (duration / 60) * 150 * 6 is no whole number, so that int() of it is    *)
(* the whole part of the exact product.                                    *)
(***************************************************************************)
Durations == {0, 65, 130, 240}

DurationLists == UNION {[1..n -> Durations] : n \in 0..MaxCostFiles}

InitCost ==
    /\ BatchIdle
    /\ TextIdle
    /\ SummaryIdle
    /\ CliIdle
    /\ CombinedIdle
    /\ FilenameIdle
    /\ ConfigIdle
    /\ cost_files \in [Lists -> DurationLists]
    /\ cost = [l \in Lists |-> None]

NextCost == \E l \in Lists : EstimateCost(l)

SpecCost == InitCost /\ [][NextCost]_vars

(***************************************************************************)
(* SpecSummary: Pipeline.get_summary applied to a list of outcomes.  The   *)
(* outcomes are of the shape process_file gives them: a success has its    *)
(* output path and no error, a failure its error and no path.              *)
(***************************************************************************)
RecordingPaths == {<<"rec", "a.m4a">>, <<"rec", "b.m4a">>}
Times == {0, 5}

Outcomes ==
    {Outcome(p, TRUE, o, None, t) :
        p \in RecordingPaths, o \in {<<"a">>, <<"a", 1>>}, t \in Times}
    \cup {Outcome(p, FALSE, None, e, t) :
        p \in RecordingPaths,
        e \in {<<"OpenAI API error">>, <<"Unexpected error", "stat failed">>},
        t \in {5}}

InitSummary ==
    /\ BatchIdle
    /\ TextIdle
    /\ CostIdle
    /\ CliIdle
    /\ CombinedIdle
    /\ FilenameIdle
    /\ ConfigIdle
    /\ sresults \in UNION {[1..n -> Outcomes] : n \in 0..MaxOutcomes}
    /\ summary = None

NextSummary == GetSummary

SpecSummary == InitSummary /\ [][NextSummary]_vars

(***************************************************************************)
(* SpecCli: one run of the process command, for every configuration, up to *)
(* MaxArgs files of every kind, and both modes.  click wants at least one  *)
(* file (required=True).                                                   *)
(***************************************************************************)
Configs ==
    [vault_path : {"", "missing", "file", "dir"},
     transcription_key : BOOLEAN, processing_key : BOOLEAN]

FileKinds == {"audio", "absent", "empty", "corrupt", "gone"}

InitCli ==
    /\ BatchIdle
    /\ TextIdle
    /\ CostIdle
    /\ SummaryIdle
    /\ CombinedIdle
    /\ FilenameIdle
    /\ ConfigIdle
    /\ config \in Configs
    /\ files \in UNION {[1..n -> FileKinds] : n \in 1..MaxArgs}
    /\ combined \in BOOLEAN
    /\ cpc = "start"
    /\ file_k = 1
    /\ loaded = << >>
    /\ costs = None
    /\ asked = << >>
    /\ handed = << >>
    /\ item_ok = << >>
    /\ exit_code = None

NextCli ==
    \/ ProcessStart
    \/ ProcessAddFile
    \/ ProcessRun

SpecCli == InitCli /\ [][NextCli]_vars

(***************************************************************************)
(* SpecCombined: one call of process_files_combined, for every list of up  *)
(* to MaxRecordings different recordings, into an empty directory or one   *)
(* that holds the name the note asks for.                                  *)
(***************************************************************************)
RecordingNames == {"a.m4a", "b.m4a", "c.m4a", "d.m4a"}

\* What is said in each recording, as process returns it.
Says(name) ==
    CASE name = "a.m4a" -> <<"alpha">>
      [] name = "b.m4a" -> <<"beta", " ", "beta">>
      [] name = "c.m4a" -> <<"gamma">>
      [] OTHER -> <<"delta">>

Recording(name, size) ==
    [name |-> name, size |-> size,
     created |-> IF name = "a.m4a" THEN "a" ELSE "b",
     says |-> Says(name)]

RecordingLists ==
    {l \in UNION {[1..n -> {Recording(name, size) : name \in RecordingNames,
                                                     size \in Sizes}] :
                  n \in 1..MaxRecordings} :
        \A j, k \in DOMAIN l : j # k => l[j].name # l[k].name}

InitCombined ==
    /\ vault \in {EmptyDir, DirOf({<<"a">>})}
    /\ NoPipeline
    /\ WriterInit
    /\ wleft = [r \in Runs |-> 0]
    /\ TextIdle
    /\ CostIdle
    /\ SummaryIdle
    /\ CliIdle
    /\ FilenameIdle
    /\ ConfigIdle
    /\ recordings \in RecordingLists
    /\ rec_k = 1
    /\ transcripts = << >>
    /\ item_errors = << >>
    /\ comb_pc = "loop"
    /\ markdown = None
    /\ format_calls = 0
    /\ write_calls = 0
    /\ comb_vault = vault
    /\ comb_result = None

NextCombined ==
    \/ CombinedItem
    \/ CombinedFormat
    \/ WriteResolve(1)
    \/ WriteText(1)
    \/ WriteVerify(1)
    \/ CombinedDone

SpecCombined == InitCombined /\ [][NextCombined]_vars

(***************************************************************************)
(* SpecFilename: generate_filename called twice for one pattern of up to    *)
(* MaxPattern elements and one metadata dictionary, at clock readings that *)
(* may differ.                                                             *)
(***************************************************************************)
PatternElements == {".", " ", "md", "note", "/", "{date}", "{original_name}"}
Patterns == UNION {[1..n -> PatternElements] : n \in 0..MaxPattern}
\* The dictionaries handed over: empty, with the time of the recording, and
\* with the name of the recording as well.
Metadatas ==
    {<< >>, [created |-> "T1"],
     [created |-> "T2", source |-> <<"a", ":", "b", ".", "m4a">>]}

InitFilename ==
    /\ BatchIdle
    /\ TextIdle
    /\ CostIdle
    /\ SummaryIdle
    /\ CliIdle
    /\ CombinedIdle
    /\ ConfigIdle
    /\ fn_pattern \in Patterns
    /\ fn_metadata \in Metadatas
    /\ fn_names = << >>
    /\ fn_nows = << >>
    /\ fn_pc = "ready"

NextFilename == GenerateFilename

SpecFilename == InitFilename /\ [][NextFilename]_vars

(***************************************************************************)
(* SpecConfig: two ConfigManagers made from one configuration file, which  *)
(* is absent or partial; the first is asked to set up to MaxSets values,   *)
(* and both are read.                                                      *)
(***************************************************************************)
ConfigFiles ==
    {Tree(EmptyDict),
     Tree([k \in {<<"obsidian">>} |->
             Tree([j \in {<<"vault_path">>} |-> Leaf(Scalar("/vault"))])]),
     Tree([k \in {<<"llm">>} |->
             Tree([j \in {<<"transcription">>} |->
                     Tree([m \in {<<"model">>} |-> Leaf(Scalar("whisper-2"))])])])}

SetPaths ==
    {<<"obsidian", ".", "vault_path">>,
     <<"llm", ".", "transcription", ".", "model">>,
     <<"new", ".", "nested", ".", "value">>,
     <<"new", ".", "nested">>,
     <<"obsidian", ".", "vault_path", ".", "x">>}
GetPaths == SetPaths \cup {<<"nonexistent", ".", "key">>}
SetValues == {Scalar("/test/path"), Scalar("test")}
GetDefaults == {PyNone, Scalar("default_value")}

InitConfig ==
    /\ BatchIdle
    /\ TextIdle
    /\ CostIdle
    /\ SummaryIdle
    /\ CliIdle
    /\ CombinedIdle
    /\ FilenameIdle
    /\ config_file \in ConfigFiles
    /\ heap = ImportedHeap
    /\ managers = [m \in Managers |-> 0]
    /\ sets = << >>
    /\ got = None

NextConfig ==
    \/ \E m \in Managers : Construct(m)
    \/ \E key_path \in SetPaths, value \in SetValues : Set(key_path, value)
    \/ \E m \in Managers, key_path \in GetPaths, default \in GetDefaults :
          Get(m, key_path, default)

SpecConfig == InitConfig /\ [][NextConfig]_vars

(***************************************************************************)
(* Properties of Spec: the batch run.                                      *)
(***************************************************************************)
\* The item process_file has just finished, when there is one.
ItemDone == pc \in {"loop", "returned"} /\ Len(results) >= 1

Successes == {k \in 1..Len(results) : results[k].success}

\* C1: process_files returns one outcome per input recording, the k-th
\* outcome referring to the k-th recording, whatever succeeded or failed;
\* and on the way the list holds the outcomes of the items done so far.
C1_OneOutcomePerInput ==
    /\ pc = "returned" => Len(results) = Len(audio_files)
    /\ pc # "none" => Len(results) = i - 1
    /\ \A k \in 1..Len(results) : results[k].audio_file = k

\* A batch of two recordings came back with a failure and a success.
C1_Witness ==
    /\ pc = "returned"
    /\ Len(audio_files) = 2
    /\ ~results[1].success
    /\ results[2].success

\* C2: an exception raised at any step of an item never leaves the batch
\* run; the item's outcome is a failure carrying the exception's message
\* (prefixed for an exception that is no domain error), and process_files
\* goes on to the next recording.
C2_ErrorsContained ==
    /\ pc # "crashed"
    /\ (pc \in {"loop", "returned"} /\ raised # NoExc) =>
          /\ Len(results) >= 1
          /\ ~Last(results).success
          /\ Last(results).audio_file = i - 1
          /\ Last(results).error =
                IF raised.type \in DomainErrors
                THEN raised.msg
                ELSE <<"Unexpected error">> \o raised.msg
    /\ (pc = "loop" /\ i <= Len(audio_files)) => ENABLED ProcessFile
    /\ pc = "returned" => i = Len(audio_files) + 1

\* The first recording failed with an exception that is no domain error and
\* the second one was still processed, to success.
C2_Witness ==
    /\ pc = "returned"
    /\ Len(results) = 2
    /\ ~results[1].success
    /\ results[1].error = <<"Unexpected error", "stat failed">>
    /\ results[2].success

\* C3: in single mode a successful item has created exactly one file, at
\* its output_path, a path that did not exist when the item started, and
\* has touched no other file; an item that failed in size validation,
\* transcription or cleanup has left the directory as it was; and no later
\* item overwrites the file of an earlier one.
C3_WrittenExactlyOnce ==
    /\ ItemDone /\ Last(results).success =>
          LET output_path == Last(results).output_path IN
          /\ output_path # None
          /\ output_path \notin DOMAIN item_vault
          /\ DOMAIN vault = DOMAIN item_vault \cup {output_path}
          /\ vault[output_path] = ItemContent(Last(results).audio_file)
          /\ \A n \in DOMAIN item_vault : vault[n] = item_vault[n]
    /\ (ItemDone /\ raised.at \in {"validate", "transcribe", "process_text"}) =>
          vault = item_vault
    /\ \A k \in Successes :
          /\ results[k].output_path \in DOMAIN vault
          /\ vault[results[k].output_path] = ItemContent(k)
    /\ \A j, k \in Successes : j # k => results[j].output_path # results[k].output_path

\* Two recordings of one modification time were both written, the second
\* one beside the first.
C3_Witness ==
    /\ pc = "returned"
    /\ Len(results) = 2
    /\ results[1].success /\ results[2].success
    /\ results[1].output_path = <<"b">>
    /\ results[2].output_path = <<"b", 1>>

\* C4: a recording of more than 26,214,400 bytes fails with the
\* TranscriptionError of the size check (unless stat itself fails) and no
\* remote transcription call is made for it; a recording of exactly
\* 26,214,400 bytes is not rejected by the size check.
C4_SizeLimit ==
    ItemDone =>
        LET st_size == audio_files[Last(results).audio_file].size IN
        /\ st_size > 26214400 =>
              /\ ~Last(results).success
              /\ remote_calls = 0
              /\ raised.at = "validate"
              /\ raised.type # "OSError" =>
                    /\ raised.type = "TranscriptionError"
                    /\ Last(results).error = <<"exceeds the 25 MB API limit">>
        /\ st_size = 26214400 =>
              ~(raised.at = "validate" /\ raised.type = "TranscriptionError")

\* A recording of exactly the limit went through and the next one, one
\* byte larger, was rejected by the size check.
C4_Witness ==
    /\ pc = "returned"
    /\ Len(results) = 2
    /\ audio_files[1].size = 26214400 /\ results[1].success
    /\ audio_files[2].size = 26214401 /\ ~results[2].success
    /\ raised.type = "TranscriptionError" /\ raised.at = "validate"
    /\ remote_calls = 0

(***************************************************************************)
(* Properties of Spec: one call of transcribe.                             *)
(***************************************************************************)
Transient == {"RateLimitError", "APIConnectionError"}
Fatal == {"APIError", "Exception", "empty", "open_OSError"}

\* C5: one call of transcribe makes at most 3 remote calls, whatever the
\* transient failures are; after a third transient failure it raises
\* TranscriptionError with no third sleep; a success on attempt k comes
\* after exactly k remote calls and k - 1 sleeps.
C5_AtMostThreeAttempts ==
    /\ remote_calls <= 3
    /\ Len(outcomes) <= 3
    /\ Len(slept) <= 2
    /\ (Len(outcomes) = 3 /\ outcomes[3] \in Transient) =>
          /\ pc \in {"loop", "returned"}
          /\ raised.type = "TranscriptionError"
          /\ raised.at = "transcribe"
          /\ ~Last(results).success
          /\ Len(slept) = 2
          /\ remote_calls = 3
    /\ (Len(outcomes) >= 1 /\ Last(outcomes) = "text") =>
          /\ attempt = Len(outcomes)
          /\ remote_calls = attempt
          /\ Len(slept) = attempt - 1
          /\ raised.at # "transcribe"

\* A rate limit, a connection error and a rate limit again: transcribe gave
\* up after the third call, having slept twice.
C5_Witness ==
    /\ outcomes = <<"RateLimitError", "APIConnectionError", "RateLimitError">>
    /\ pc = "loop"
    /\ raised.type = "TranscriptionError"
    /\ Len(slept) = 2
    /\ remote_calls = 3

\* C6: the sleep after the failed attempt n (n = 1 or 2) lasts 2 * 2^(n-1)
\* seconds after a rate limit and 2 * n seconds after a connection error,
\* whatever the earlier failures were; the delay computed and not yet slept
\* obeys the same rule.
C6_BackoffDelays ==
    /\ \A n \in 1..Len(slept) :
          /\ n \in {1, 2}
          /\ outcomes[n] \in Transient
          /\ slept[n] = IF outcomes[n] = "RateLimitError" THEN 2 * 2^(n - 1) ELSE 2 * n
    /\ pc = "sleep" =>
          /\ Len(slept) = attempt - 1
          /\ Last(outcomes) \in Transient
          /\ delay = IF Last(outcomes) = "RateLimitError"
                     THEN 2 * 2^(attempt - 1) ELSE 2 * attempt

\* A connection error, then a rate limit: 2 seconds, then 4.
C6_Witness ==
    /\ Len(outcomes) >= 2
    /\ outcomes[1] = "APIConnectionError"
    /\ outcomes[2] = "RateLimitError"
    /\ slept = <<2, 4>>

\* C7: a remote failure of neither class and an empty text end transcribe
\* on the attempt where they occur: TranscriptionError is raised, with no
\* sleep and no remote call after that attempt.
C7_FatalImmediately ==
    \A n \in 1..Len(outcomes) :
        outcomes[n] \in Fatal =>
            /\ n = Len(outcomes)
            /\ pc \in {"loop", "returned"}
            /\ raised.type = "TranscriptionError"
            /\ raised.at = "transcribe"
            /\ ~Last(results).success
            /\ Len(slept) = n - 1
            /\ remote_calls <= n
            /\ rewrite_calls = 0

\* After one retry the second attempt returned an empty text: transcribe
\* raised at once.
C7_Witness ==
    /\ outcomes = <<"RateLimitError", "empty">>
    /\ pc = "loop"
    /\ raised.type = "TranscriptionError"
    /\ slept = <<2>>
    /\ remote_calls = 2

(***************************************************************************)
(* Properties of SpecWriter: calls of write one after the other.           *)
(***************************************************************************)
\* The names in dir that a request for filename runs into: the name itself
\* and the names that append one counter to it.
Colliding(dir, filename) ==
    {n \in dir : n = filename
                 \/ (Len(n) = Len(filename) + 1 /\ SubSeq(n, 1, Len(filename)) = filename)}

\* C8: write returns the asked name when it did not exist, else the name
\* with the smallest counter k >= 1 that did not exist; the returned path
\* did not exist before the call, holds the content afterwards, and every
\* file that existed is as it was.  So the second write of note.md into a
\* directory that had neither yields note_1.md beside note.md.
C8_UniquePath ==
    wpc[1] = "returned" =>
        LET before == DOMAIN wbefore[1]
            filename == wname[1]
            file_path == wpath[1] IN
        /\ file_path \notin before
        /\ file_path \in DOMAIN vault
        /\ vault[file_path] = wcontent[1]
        /\ filename \notin before => file_path = filename
        /\ filename \in before =>
              \E k \in 1..1000 :
                  /\ file_path = Append(filename, k)
                  /\ \A j \in 1..(k - 1) : Append(filename, j) \in before
        /\ \A n \in before : vault[n] = wbefore[1][n]
        /\ DOMAIN vault = before \cup {file_path}

\* note.md was there alone, and write returned note_1.md.
C8_Witness ==
    /\ wpc[1] = "returned"
    /\ DOMAIN wbefore[1] = {<<"note">>}
    /\ wpath[1] = <<"note", 1>>
    /\ DOMAIN vault = {<<"note">>, <<"note", 1>>}

\* C9 as claimed: with 1000 colliding names in the directory, write fails.
C9_FailsAtThousandNames ==
    (wpc[1] \in {"returned", "raised"}
        /\ Cardinality(Colliding(DOMAIN wbefore[1], wname[1])) = 1000)
    => wpc[1] = "raised"

\* C9 as amended: when the asked name and its variants _1 to _1000 all
\* exist (1001 colliding names), write fails with FileWriteError and leaves
\* every file as it was; and write gives up on finding a name in that case
\* only, so with note.md and note_1.md to note_999.md (1000 names) it does
\* not.
C9_FailsWhenAllProbesExist ==
    wpc[1] \in {"write_text", "verify", "returned", "raised"} =>
        LET before == DOMAIN wbefore[1]
            all_exist == /\ wname[1] \in before
                         /\ \A k \in 1..1000 : Append(wname[1], k) \in before IN
        /\ all_exist =>
              /\ wpc[1] = "raised"
              /\ wpath[1] = None
              /\ vault = wbefore[1]
        /\ werr[1] = <<"Failed to write file", "Could not find unique filename">>
              => all_exist

\* write gave up in a directory of 1001 colliding names.
C9_Witness ==
    /\ wpc[1] = "raised"
    /\ werr[1] = <<"Failed to write file", "Could not find unique filename">>
    /\ Cardinality(Colliding(DOMAIN wbefore[1], wname[1])) = 1001
    /\ vault = wbefore[1]

(***************************************************************************)
(* Properties of SpecRace: two runs on one directory.                      *)
(***************************************************************************)
\* C10 as claimed: two runs that wrote the same asked name, write_text
\* having persisted the content of each, end with two different paths, each
\* holding the content of the run that returned it.
C10_RacingRunsGetDistinctFiles ==
    (/\ wpc[1] = "returned" /\ wpc[2] = "returned"
     /\ wio[1] = "ok" /\ wio[2] = "ok"
     /\ wname[1] = wname[2]) =>
        /\ wpath[1] # wpath[2]
        /\ \A r \in Runs : vault[wpath[r]] = wcontent[r]

(***************************************************************************)
(* Properties of SpecWriter: what write reports.                           *)
(***************************************************************************)
\* C11: write never reports success for a file that is absent.  A call
\* that returned has a path, and the path exists with the content; a call
\* whose mkdir failed, whose write_text raised, or whose write_text left
\* nothing at the chosen path, has raised FileWriteError naming the cause
\* and has returned no path.
C11_NoSuccessWithoutFile ==
    /\ wpc[1] = "returned" =>
          /\ wpath[1] # None
          /\ wpath[1] \in DOMAIN vault
          /\ vault[wpath[1]] = wcontent[1]
          /\ werr[1] = None
          /\ wio[1] = "ok"
    /\ wio[1] = "mkdir_OSError" =>
          /\ wpc[1] = "raised"
          /\ werr[1] = <<"Failed to write file", "Failed to create output directory">>
          /\ vault = wbefore[1]
    /\ wio[1] = "OSError" =>
          /\ wpc[1] = "raised"
          /\ werr[1] = <<"Failed to write file", "OSError">>
    /\ (wio[1] = "dropped" /\ wpc[1] # "verify") =>
          /\ wpc[1] = "raised"
          /\ wpath[1] \notin DOMAIN vault
          /\ werr[1] = <<"Failed to write file", "File was not created">>
    /\ wpc[1] = "raised" => werr[1] # None

\* write_text returned with nothing on disk, and write raised.
C11_Witness ==
    /\ wpc[1] = "raised"
    /\ wio[1] = "dropped"
    /\ wpath[1] = <<"note", 1>>
    /\ <<"note", 1>> \notin DOMAIN vault
    /\ werr[1] = <<"Failed to write file", "File was not created">>

(***************************************************************************)
(* Properties of Spec: the shape of an outcome.                            *)
(***************************************************************************)
\* C12: every ProcessingResult that process_file produced has an
\* output_path if and only if success is true, and an error if and only if
\* success is false.
C12_PathIffSuccess ==
    \A k \in 1..Len(results) :
        /\ results[k].output_path # None <=> results[k].success
        /\ results[k].error # None <=> ~results[k].success

\* A success with its path and no error, then a failure of the cleanup
\* with its reason and no path.
C12_Witness ==
    /\ Len(results) = 2
    /\ results[1].success
    /\ results[1].output_path = <<"a">>
    /\ results[1].error = None
    /\ ~results[2].success
    /\ results[2].output_path = None
    /\ results[2].error = <<"OpenAI API error during text processing">>

(***************************************************************************)
(* Properties of SpecText: one call of TextProcessor.process.              *)
(***************************************************************************)
\* C13: process runs the filler pass first and then issues exactly one
\* rewrite call, whose user text is the output of the filler pass; when
\* that call fails or its reply is empty, process raises
\* TextProcessingError and issues no second call.
C13_OnePassThenOneCall ==
    /\ Len(sent) <= 1
    /\ tpc = "start" => sent = << >>
    /\ tpc = "gpt" => sent = << >>
    /\ tpc \in {"returned", "raised"} =>
          /\ Len(sent) = 1
          /\ sent[1] = remove_filler_words_pattern(raw_text, filler_words,
                                                   aggressiveness)
          /\ ~ENABLED ProcessWithGpt
          /\ ~ENABLED RemoveFillerWords
    /\ tpc = "returned" => text # << >> /\ texc = NoExc
    /\ tpc = "raised" => texc.type = "TextProcessingError"

\* "um sort" lost its filler before the one call, whose reply was empty.
C13_Witness ==
    /\ tpc = "raised"
    /\ raw_text = <<"um", " ", "sort">>
    /\ aggressiveness = "moderate"
    /\ sent = << <<"sort">> >>
    /\ texc.msg = <<"Unexpected error during text processing",
                    "GPT returned empty response">>

Standalone(s, filler) ==
    \E p \in 1..Len(s) :
        /\ p + Len(filler) - 1 <= Len(s)
        /\ \A k \in 1..Len(filler) : lower(s[p + k - 1]) = lower(filler[k])
        /\ ~WordAt(s, p - 1)
        /\ ~WordAt(s, p + Len(filler))

\* C15 as claimed: at high aggressiveness the result of the filler pass
\* holds no standalone occurrence of any configured filler, multi-word
\* fillers included.
C15_HighLeavesNoFiller ==
    (aggressiveness = "high" /\ tpc = "gpt") =>
        \A k \in 1..Len(filler_words) : ~Standalone(text, filler_words[k])

(***************************************************************************)
(* Properties of SpecCost: the cost estimate.                              *)
(***************************************************************************)
RECURSIVE TotalDuration(_)
TotalDuration(durations) ==
    IF durations = << >> THEN 0
    ELSE Head(durations) + TotalDuration(Tail(durations))

\* C16 as claimed: every component of the estimate is non-negative, and
\* of two lists of recordings the one with the smaller or equal sum of
\* durations has the smaller or equal total, however the durations are
\* split across the items.
C16_NonNegativeAndMonotone ==
    /\ \A l \in Lists : cost[l] # None =>
          /\ cost[l].transcription >= 0
          /\ cost[l].text_processing >= 0
          /\ cost[l].total >= 0
    /\ (cost["A"] # None /\ cost["B"] # None
          /\ TotalDuration(cost_files["A"]) <= TotalDuration(cost_files["B"]))
       => cost["A"].total <= cost["B"].total

(***************************************************************************)
(* Properties of SpecSummary: the batch summary.                           *)
(***************************************************************************)
\* The positions of the outcomes that succeeded, that failed.
SucceededAt == {k \in 1..Len(sresults) : sresults[k].success}
FailedAt == {k \in 1..Len(sresults) : ~sresults[k].success}

\* The position in sresults of the j-th member of the set of positions K.
Nth(K, j) == CHOOSE k \in K : Cardinality({m \in K : m <= k}) = j

\* C18: for every list of outcomes get_summary reports total_files = the
\* number of outcomes and successful + failed = total_files; output_files
\* are the output paths of exactly the successes and errors the
\* {file, error} of exactly the failures, each in the order of the list;
\* and the average time of the empty list is 0.
C18_SummaryCounts ==
    summary # None =>
        /\ summary.total_files = Len(sresults)
        /\ summary.successful + summary.failed = summary.total_files
        /\ summary.successful = Cardinality(SucceededAt)
        /\ Len(summary.output_files) = Cardinality(SucceededAt)
        /\ \A j \in 1..Len(summary.output_files) :
              summary.output_files[j]
                  = <<"str">> \o sresults[Nth(SucceededAt, j)].output_path
        /\ Len(summary.errors) = Cardinality(FailedAt)
        /\ \A j \in 1..Len(summary.errors) :
              /\ summary.errors[j].file
                    = sresults[Nth(FailedAt, j)].audio_file.path[2]
              /\ summary.errors[j].error = sresults[Nth(FailedAt, j)].error
        /\ sresults = << >> => summary.average_processing_time = 0

\* A success, a failure and another success were summarised: two paths
\* in the order of the list, one error.
C18_Witness ==
    /\ summary # None
    /\ Len(sresults) = 3
    /\ sresults[1].success /\ ~sresults[2].success /\ sresults[3].success
    /\ summary.output_files = << <<"str", "a", 1>>, <<"str", "a">> >>
    /\ summary.errors = << [file |-> "b.m4a", error |-> <<"OpenAI API error">>] >>
    /\ summary.successful = 2 /\ summary.failed = 1

(***************************************************************************)
(* Properties of SpecCli: the process command.                             *)
(***************************************************************************)
\* The configuration has a vault directory and both API keys.
ConfigComplete ==
    /\ config.vault_path = "dir"
    /\ config.transcription_key
    /\ config.processing_key

\* C17 as claimed: the process command, given a complete configuration
\* and files of which it loaded at least one, computes the cost estimate
\* and asks for the confirmation, and it does so before anything is handed
\* to the pipeline, which makes the remote calls and writes the files;
\* when the user declines, nothing is handed to the pipeline and the
\* command ends with status 0.
C17_EstimateAndConfirmationFirst ==
    /\ handed # << >> => (costs # None /\ asked = <<TRUE>>)
    /\ (cpc = "exited" /\ asked = <<FALSE>>) =>
          (handed = << >> /\ exit_code = <<0>>)
    /\ (cpc = "exited" /\ ConfigComplete /\ loaded # << >>
          /\ file_k > Len(files)) =>
          (costs # None /\ asked # << >>)

\* An input item failed: it was rejected when it was loaded, or the
\* pipeline failed on it.
ItemFailed ==
    \/ \E k \in 1..Len(files) : \A j \in 1..Len(loaded) : loaded[j] # k
    \/ \E k \in 1..Len(item_ok) : ~item_ok[k]

\* C19 as claimed: a run of the process command that was not declined
\* ends with status 1 if an input item failed, in the pipeline or rejected
\* as invalid media, and with status 0 otherwise.
C19_ExitStatusTellsFailure ==
    (cpc = "exited" /\ ConfigComplete /\ asked # <<FALSE>>) =>
        exit_code = (IF ItemFailed THEN <<1>> ELSE <<0>>)

(***************************************************************************)
(* Properties of SpecCombined: the combined workflow.                      *)
(***************************************************************************)
\* The positions up to k of the recordings that came through, in order.
RECURSIVE Survivors(_)
Survivors(k) ==
    IF k = 0 THEN << >>
    ELSE IF item_errors[k] = NoExc THEN Append(Survivors(k - 1), k)
    ELSE Survivors(k - 1)

\* The call returned, and some but not all recordings failed.
PartialFailure ==
    /\ comb_pc = "returned"
    /\ \E k \in DOMAIN item_errors : item_errors[k] # NoExc
    /\ \E k \in DOMAIN item_errors : item_errors[k] = NoExc

C21_OneOutcomeOneWrite ==
    /\ format_calls <= 1
    /\ write_calls <= 1
    /\ comb_pc # "returned" => comb_result = None
    /\ comb_pc = "returned" =>
         /\ comb_result # None
         /\ IF \A k \in DOMAIN item_errors : item_errors[k] # NoExc
            THEN /\ ~comb_result.success
                 /\ comb_result.output_path = None
                 /\ format_calls = 0
                 /\ write_calls = 0
                 /\ vault = comb_vault
            ELSE /\ format_calls = 1
                 /\ write_calls = 1
                 /\ \A n \in DOMAIN comb_vault :
                       n \in DOMAIN vault /\ vault[n] = comb_vault[n]
                 /\ IF comb_result.success
                    THEN DOMAIN vault = DOMAIN comb_vault \cup {comb_result.output_path}
                         /\ comb_result.output_path \notin DOMAIN comb_vault
                    ELSE vault = comb_vault

\* Three recordings came through and one note was written.
C21_Witness ==
    /\ comb_pc = "returned"
    /\ Len(transcripts) = 3
    /\ comb_result.success
    /\ format_calls = 1
    /\ write_calls = 1
    /\ Cardinality(DOMAIN vault) = Cardinality(DOMAIN comb_vault) + 1

(***************************************************************************)
(* Properties of SpecFilename: generate_filename.                          *)
(***************************************************************************)
\* The pattern after the substitutions, at the clock reading of call k.
Substituted(k) ==
    LET dt == IF "created" \in DOMAIN fn_metadata
              THEN fn_metadata.created ELSE fn_nows[k] IN
    apply_replacements(fn_pattern, Replacements(dt, fn_metadata), 1)

\* Nothing of s is left once its invalid characters are replaced and its
\* leading and trailing dots and spaces are gone.
NothingLeft(s) ==
    strip_chars([k \in DOMAIN s |-> IF s[k] \in invalid_chars THEN "_" ELSE s[k]],
                {".", " "}) = << >>

\* C22: every name generate_filename returns has none of the characters
\* < > : " / \ | ? *, neither starts nor ends with a dot or a space, and is
\* voice-note.md whenever the substituted pattern has nothing left after
\* sanitizing, as for the empty pattern and for a pattern of dots and
\* spaces.
C22_SanitizedOrDefault ==
    \A k \in DOMAIN fn_names :
        LET name == fn_names[k] IN
        /\ \A j \in DOMAIN name : name[j] \notin invalid_chars
        /\ name # << >>
        /\ name[1] \notin {".", " "}
        /\ name[Len(name)] \notin {".", " "}
        /\ NothingLeft(Substituted(k)) => name = DEFAULT_FILENAME

\* C23: two calls of generate_filename with one pattern and one metadata
\* return the same name when the reference timestamp is the same (the
\* recording's time, or the same clock reading when the metadata has
\* none), and a substituted pattern that ends with the extension is
\* sanitized as it is, with no second extension.
C23_SameNameNoSecondExtension ==
    /\ \A k \in DOMAIN fn_names :
          endswith(Substituted(k), MD) =>
              /\ fn_names[k] = sanitize_filename(Substituted(k))
              /\ Len(fn_names[k]) <= Len(Substituted(k))
    /\ (fn_pc = "twice"
          /\ ("created" \in DOMAIN fn_metadata \/ fn_nows[1] = fn_nows[2])) =>
              fn_names[1] = fn_names[2]

\* {date}note.md was generated twice at different clock readings for a
\* recording of T1: both names are 2024-01-02note.md.
C23_Witness ==
    /\ fn_pc = "twice"
    /\ fn_pattern = <<"{date}", "note", ".", "md">>
    /\ fn_metadata = [created |-> "T1"]
    /\ fn_nows = <<"T1", "T2">>
    /\ fn_names = <<<<"2024-01-02", "note", ".", "md">>,
                    <<"2024-01-02", "note", ".", "md">>>>

\* C29: every name generate_filename returns with the default extension
\* ends with ".md".
C29_EndsWithExtension ==
    \A k \in DOMAIN fn_names : endswith(fn_names[k], MD)

(***************************************************************************)
(* Properties of SpecConfig: ConfigManager.                                *)
(***************************************************************************)
\* The tree has a value under the keys, from the k-th key on.
RECURSIVE Present(_, _, _)
Present(tree, keys, k) ==
    \/ k > Len(keys)
    \/ /\ tree.kind = "dict"
       /\ keys[k] \in DOMAIN tree.items
       /\ Present(tree.items[keys[k]], keys, k + 1)

\* C24: a get of A that follows A.set(p, v) and asks for p returns v, for
\* every dot path p, also one whose intermediate keys did not exist; and a
\* get(p, d) for a path that is not present returns d.
C24_SetThenGet ==
    got # None =>
        /\ (sets # << >> /\ got.manager = "A"
              /\ got.key_path = sets[Len(sets)].key_path) =>
                 got.value = sets[Len(sets)].value
        /\ ~Present(Deep(heap, Ref(managers[got.manager])), split(got.key_path), 1) =>
              got.value = got.default

\* What a ConfigManager made from the file reads when nothing was set: the
\* file merged with the defaults as they are written in the class.
Untouched(file) ==
    LET made == ConfigManagerInit(ImportedHeap, file) IN
    Deep(made.heap, Ref(made.id))

\* C28: the calls of A.set leave the class attribute DEFAULT_CONFIG as it
\* is written, and a ConfigManager B made from the same file reads the
\* original value of every key.
C28_SetChangesOnlyItsInstance ==
    /\ Deep(heap, Ref(1)) = DEFAULT_CONFIG
    /\ managers["B"] # 0 => Deep(heap, Ref(managers["B"])) = Untouched(config_file)

(***************************************************************************)
(* Properties of SpecCli: what ends the process command early.             *)
(***************************************************************************)
\* The configuration names no existing directory as the vault, or the
\* credential validate looks for is not in the environment.
ConfigInvalid ==
    \/ config.vault_path # "dir"
    \/ ~config.transcription_key

\* C25: validate raises ConfigurationError exactly when the vault path is
\* not configured, does not exist or is no directory, or the API credential
\* is absent; and once the process command is past its start with such a
\* configuration it has exited with status 1, having loaded no recording,
\* computed no estimate, asked no confirmation and handed nothing to the
\* pipeline, which makes the remote calls and writes the files.
C25_InvalidConfigurationEndsFirst ==
    /\ ConfigInvalid <=> validate(config) # None
    /\ (ConfigInvalid /\ cpc \notin {"none", "start"}) =>
          /\ cpc = "exited"
          /\ exit_code = <<1>>
          /\ file_k = 1
          /\ loaded = << >>
          /\ costs = None
          /\ asked = << >>
          /\ handed = << >>
          /\ item_ok = << >>

\* The vault path names a file, the credential is there, an audio file
\* was given, and the command has exited with status 1.
C25_Witness ==
    /\ cpc = "exited"
    /\ config.vault_path = "file"
    /\ config.transcription_key
    /\ files[1] = "audio"
    /\ exit_code = <<1>>
    /\ loaded = << >>

\* The positions of a sequence of positions, as a set.
Positions(s) == {s[j] : j \in 1..Len(s)}

\* The kinds of file whose construction the claim says fails.
InvalidMedia == {"absent", "gone", "empty", "corrupt"}

\* C26 as claimed: a file that does not exist, is empty or cannot be
\* decoded is never loaded and never handed to the pipeline, which makes
\* the transcription calls, the rewrite calls and the writes; and when the
\* command, given a complete configuration and not declined, has exited,
\* every valid file of the invocation was handed to the pipeline.
C26_InvalidMediaNeverEntersOthersDo ==
    /\ \A k \in 1..Len(files) :
          files[k] \in InvalidMedia =>
              k \notin Positions(loaded) \cup Positions(handed)
    /\ (cpc = "exited" /\ ConfigComplete /\ asked # <<FALSE>>) =>
          \A k \in 1..Len(files) :
              files[k] = "audio" => k \in Positions(handed)

(***************************************************************************)
(* Properties of Spec: the order of the steps.                             *)
(***************************************************************************)
\* Where process_file can go from each of its steps: on to the next step,
\* or out with the item's outcome.
StepOrder ==
    {<<"loop", "validate">>, <<"loop", "returned">>,
     <<"validate", "transcribe">>, <<"validate", "loop">>,
     <<"transcribe", "process_text">>, <<"transcribe", "sleep">>,
     <<"transcribe", "loop">>,
     <<"sleep", "transcribe">>, <<"sleep", "loop">>,
     <<"process_text", "write">>, <<"process_text", "loop">>,
     <<"write", "writing">>, <<"writing", "writing">>, <<"writing", "loop">>}

\* What has happened for the current item at each step: nothing before the
\* size validation; no rewrite call and no write while it is transcribed;
\* a transcript and still no rewrite call and no write when the rewrite
\* starts; a transcript and one rewrite call, without an exception, when
\* the write starts; and the outcomes of all earlier items, and of no
\* other, are in results.
EventsInOrder ==
    /\ Len(results) = i - 1
    /\ pc = "validate" =>
          (outcomes = << >> /\ remote_calls = 0 /\ slept = << >>)
    /\ pc \in {"validate", "transcribe", "sleep", "process_text"} =>
          (rewrite_calls = 0 /\ vault = item_vault)
    /\ pc \in {"process_text", "write", "writing"} =>
          (outcomes # << >> /\ Last(outcomes) = "text" /\ remote_calls >= 1)
    /\ pc \in {"write", "writing"} => (rewrite_calls = 1 /\ raised = NoExc)
    /\ pc = "write" => vault = item_vault
    /\ wpc[1] # "idle" => pc = "writing"

\* One step: it follows the order of the steps; a remote call, a rewrite
\* call or a write belongs to the item at position i, whose outcome is not
\* in results yet; i moves on by one, together with the outcome of the
\* item it leaves; and the step that sleeps makes no remote call, no
\* rewrite call and no write.
OneStepAtATime ==
    /\ <<pc, pc'>> \in StepOrder
    /\ (remote_calls' > remote_calls \/ rewrite_calls' > rewrite_calls
          \/ vault' # vault) =>
          (i \in 1..Len(audio_files) /\ Len(results) = i - 1)
    /\ i' # i =>
          (i' = i + 1 /\ Len(results') = i /\ results'[i].audio_file = i)
    /\ results' # results => (i' = i + 1 /\ SubSeq(results', 1, i - 1) = results)
    /\ pc = "sleep" =>
          /\ remote_calls' = remote_calls
          /\ rewrite_calls' = rewrite_calls
          /\ vault' = vault
          /\ wpc' = wpc
          /\ i' = i \/ (~results'[i].success /\ pc' = "loop")

\* C27: processing is strictly sequential.  Within one item the events
\* come in the order size validation, transcription calls, rewrite call,
\* write, and each step starts only after the one before it succeeded;
\* no remote call and no write for the next item happens before the
\* outcome of the current item is in results; and while transcribe sleeps
\* before a retry no item makes progress.
C27_StrictlySequential == []EventsInOrder /\ [][OneStepAtATime]_vars

\* The second item is being written, after a retry sleep, and the first
\* item's outcome, a success, is in results.
C27_Witness ==
    /\ i = 2
    /\ pc = "writing"
    /\ wpc[1] = "verify"
    /\ slept # << >>
    /\ Len(results) = 1
    /\ results[1].success

(***************************************************************************)
(* Properties of SpecCli: the construction of the pipeline.                *)
(***************************************************************************)
\* C30 as claimed: for a configuration that passes validation, with the
\* credentials of both services in the environment, Pipeline(config)
\* raises nothing; and a run of the process command with such a
\* configuration that loaded a file gets past the construction, to the
\* cost estimate the constructed pipeline computes.
C30_PipelineConstructedWhenValid ==
    /\ (cpc # "none" /\ validate(config) = None /\ config.processing_key) =>
          PipelineInit(config) = "None"
    /\ (cpc = "exited" /\ validate(config) = None /\ config.processing_key
          /\ file_k > Len(files) /\ loaded # << >>) =>
          costs # None

====
